---- MODULE Spec2Model ----
(***************************************************************************)
(* FutureBox server: the trust-tier action gate (action.service.ts and the *)
(* action / trust-rule repositories), the real-time transport registry     *)
(* (ws-manager.ts) and one streamed chat turn (chat.service.ts             *)
(* streamMessage / executeTool driven by the ws chat handler).             *)
(*                                                                         *)
(* Node runs every handler to its next real suspension (network read,     *)
(* timer, host tool) without interleaving, so every action below is one   *)
(* such run: from a macrotask's start to the next await that needs one.   *)
(***************************************************************************)
EXTENDS Integers, Sequences, FiniteSets, TLC

\* ------------------------------------------------------------------ bounds
MaxActions == 2      \* Action rows ever created (nanoid supply)
MaxTicks   == 2      \* clock advances in one behaviour
MaxSockets == 3      \* websocket connections ever opened
MaxTokens  == 2      \* text increments the backend streams in one turn
MaxCalls   == 2      \* tool calls the backend requests in one turn
MaxSubmits == 1      \* POST /actions requests where only submission is studied
MaxRules   == 1      \* trust-rule writes in one behaviour
MaxWrites  == 3      \* trust-rule writes in a behaviour of the rule table alone

\* ------------------------------------------------------- program constants
MAX_TOOL_ROUNDS  == 10
WAIT_BUDGET_MS   == 120000
POLL_INTERVAL_MS == 1000
ACTION_TIMEOUT_MS == 24 * 60 * 60 * 1000
WS_OPEN          == 1
WS_CLOSED        == WS_OPEN + 2

Null == "null"

\* ------------------------------------------------------------------- time
MsPerDay == 24 * 60 * 60 * 1000
\* The clock starts one poll interval before a UTC midnight.
StartNow == 2 * MsPerDay - POLL_INTERVAL_MS
TickSteps == {POLL_INTERVAL_MS, WAIT_BUDGET_MS}

\* Timestamps are text; a text is modelled by the tuple of its fields, the
\* separator after the date by its character code, so that the bytewise
\* order of the texts is the lexicographic order of the tuples.
\* SQLite datetime('now'): "YYYY-MM-DD HH:MM:SS".
SqlDatetime(ms) == <<ms \div MsPerDay, 32, (ms % MsPerDay) \div 1000>>
\* Date.prototype.toISOString(): "YYYY-MM-DDTHH:MM:SS.sssZ".
ToISOString(ms) == <<ms \div MsPerDay, 84, ms % MsPerDay>>
\* SQLite's < on two TEXT values.
TextLess(a, b) ==
    \/ a[1] < b[1]
    \/ a[1] = b[1] /\ a[2] < b[2]
    \/ a[1] = b[1] /\ a[2] = b[2] /\ a[3] < b[3]

\* ------------------------------------------------------------------ state
VARIABLES
    now,            \* Date.now(), milliseconds
    ticks,          \* clock advances so far (bounds the behaviour)
    actions,        \* table actions: sequence of rows, in insertion order
    trustRules,     \* table trust_rules: set of rows
    rulesMade,      \* trust-rule identities drawn so far
    clients,        \* WSManager.clients: session -> registered socket or NoSocket
    readyState,     \* socket -> readyState (0 = never opened)
    sent,           \* socket -> sequence of envelopes written to it
    reply,          \* the last HTTP reply of the actions routes
    conversations,  \* table conversations: sequence of rows, in insertion order
    messages,       \* table messages: sequence of rows, in created_at order
    activeStreams,  \* handler map: correlation identity -> the AbortController of
                    \* turn 1 or of turn 2, NoStream for no entry
    execLog,        \* the host tools executeSkillAction was invoked on, in order
    t,              \* the chat turn: handleChatSend, its generator and executeTool
    router,         \* one call of routeChat / routeChatStream and what it touched
    frames,         \* the frames the message handler took besides chat.send and
                    \* chat.cancel: how many, and the last one with its socket
    closeEvents,    \* the sockets whose 'close' event is emitted and not yet handled
    shells,         \* the PTYs spawned so far and the map activeShells
    t2              \* a second chat turn, of another chat.send

turnVars == <<conversations, messages, activeStreams, execLog, t, t2>>

Sessions == {"s1", "s2"}
Sockets  == 1..MaxSockets
NoSocket == 0
\* The session a socket authenticated as (validateSession of its token):
\* the third connection is a second one of the first session.
SessionOf(sock) == IF sock = 2 THEN "s2" ELSE "s1"

\* nanoid(): a fresh identity at every call.
ActionIdPool == <<"a1", "a2", "a3", "a4", "a5">>
RuleIdPool   == [i \in 1..(MaxRules + MaxWrites) |-> "r" \o ToString(i)]

Tiers     == {"green", "yellow", "red"}
Decisions == {"auto_approve", "auto_deny", "ask"}
\* An action type "<skill>.<action>" is the sequence of its dot-separated parts.
SplitDot(type) == type
ShellExec == <<"shell", "exec">>
ClipWrite == <<"clipboard", "write">>
BrowserOpen == <<"browser", "open">>

\* ----------------------------------------------------- action repository
\* createAction: INSERT; status, created_at and resolved_at take the
\* column defaults.
createAction(acts, data) ==
    Append(acts, [id |-> data.id, conversation_id |-> data.conversation_id,
                  type |-> data.type, tier |-> data.tier, title |-> data.title,
                  description |-> data.description,
                  status |-> "pending",
                  created_at |-> SqlDatetime(now),
                  resolved_at |-> <<>>])

\* The index of the row with identity id, 0 when there is none.
RowOf(acts, id) ==
    IF \E i \in 1..Len(acts) : acts[i].id = id
    THEN CHOOSE i \in 1..Len(acts) : acts[i].id = id
    ELSE 0

\* getAction: the row as a sequence of length 0 or 1.
getAction(acts, id) ==
    IF RowOf(acts, id) = 0 THEN <<>> ELSE <<acts[RowOf(acts, id)]>>

\* (mutant) the UPDATE without its "AND status = 'pending'"
ResolveWhereAnyStatus(acts, id, st) ==
    [i \in 1..Len(acts) |->
        IF acts[i].id = id
        THEN [acts[i] EXCEPT !.status = st, !.resolved_at = <<SqlDatetime(now)>>]
        ELSE acts[i]]

\* UPDATE actions SET status = st, resolved_at = datetime('now')
\* WHERE id = ? AND status = 'pending'
ResolveWhere(acts, id, st) ==
    [i \in 1..Len(acts) |->
        IF acts[i].id = id /\ acts[i].status = "pending"
        THEN [acts[i] EXCEPT !.status = st, !.resolved_at = <<SqlDatetime(now)>>]
        ELSE acts[i]]

\* result.changes > 0
Changes(acts, id) ==
    Cardinality({i \in 1..Len(acts) : acts[i].id = id /\ acts[i].status = "pending"})

approveActionRows(acts, id) == ResolveWhere(acts, id, "approved")
denyActionRows(acts, id) == ResolveWhere(acts, id, "denied")

\* expireOldActions(maxAgeMs): rows and result.changes
ExpireCutoff(maxAgeMs) == ToISOString(now - maxAgeMs)
Stale(row, maxAgeMs) ==
    row.status = "pending" /\ TextLess(row.created_at, ExpireCutoff(maxAgeMs))
expireOldActionsRows(acts, maxAgeMs) ==
    [i \in 1..Len(acts) |->
        IF Stale(acts[i], maxAgeMs)
        THEN [acts[i] EXCEPT !.status = "expired", !.resolved_at = <<SqlDatetime(now)>>]
        ELSE acts[i]]
expireOldActionsCount(acts, maxAgeMs) ==
    Cardinality({i \in 1..Len(acts) : Stale(acts[i], maxAgeMs)})

\* ------------------------------------------------- trust-rule repository
\* (faulty variant) the wildcard rule is looked up before the exact one
findTrustRuleWildFirst(service, action) ==
    LET exact == {r \in trustRules : r.service = service /\ r.action = action}
        wild  == {r \in trustRules : r.service = "*" /\ r.action = action}
    IN IF wild # {} THEN wild ELSE exact

\* findTrustRule(service, action): exact match first, then wildcard service;
\* a set with at most one row.
findTrustRule(service, action) ==
    LET exact == {r \in trustRules : r.service = service /\ r.action = action}
        wild  == {r \in trustRules : r.service = "*" /\ r.action = action}
    IN IF exact # {} THEN exact ELSE wild

\* (faulty variant) a plain INSERT
createTrustRuleRowsInsert(id, service, action, decision) ==
    trustRules \cup {[id |-> id, service |-> service, action |-> action,
                      decision |-> decision]}

\* createTrustRule: INSERT ... ON CONFLICT(service, action) DO UPDATE SET decision
createTrustRuleRows(id, service, action, decision) ==
    IF \E r \in trustRules : r.service = service /\ r.action = action
    THEN {IF r.service = service /\ r.action = action
          THEN [r EXCEPT !.decision = decision] ELSE r : r \in trustRules}
    ELSE trustRules \cup {[id |-> id, service |-> service, action |-> action,
                           decision |-> decision]}

\* deleteTrustRule: DELETE WHERE id = ?
deleteTrustRuleRows(id) == {r \in trustRules : r.id # id}

\* ------------------------------------------------------------- transport
\* createWSMessage (the timestamp is left out: nothing reads it)
createWSMessage(type, id, payload) == [type |-> type, id |-> id, payload |-> payload]

\* (faulty variant) send without the readyState test
wsSendNoStateTest(log, sessionId, message) ==
    LET sock == clients[sessionId]
    IN IF sock # NoSocket
       THEN [log EXCEPT ![sock] = Append(@, message)]
       ELSE log

\* WSManager.send: to the socket registered for the session, if it is open.
wsSend(log, sessionId, message) ==
    LET sock == clients[sessionId]
    IN IF sock # NoSocket /\ readyState[sock] = WS_OPEN
       THEN [log EXCEPT ![sock] = Append(@, message)]
       ELSE log

\* (mutant) broadcast without the readyState test
wsBroadcastNoStateTest(log, message) ==
    [sock \in Sockets |->
        IF \E s \in Sessions : clients[s] = sock
        THEN Append(log[sock], message)
        ELSE log[sock]]

\* WSManager.broadcast: to every registered socket that is open.
wsBroadcast(log, message) ==
    [sock \in Sockets |->
        IF (\E s \in Sessions : clients[s] = sock) /\ readyState[sock] = WS_OPEN
        THEN Append(log[sock], message)
        ELSE log[sock]]

\* ---------------------------------------------------------- action service
\* The three outcomes of submitAction on the rows `created`.
GateApproved(w, created, id) ==
    [w |-> [w EXCEPT !.actions = approveActionRows(created, id)],
     decision |-> "auto_approved",
     action |-> [created[Len(created)] EXCEPT !.status = "approved"]]
GateDenied(w, created, id) ==
    [w |-> [w EXCEPT !.actions = denyActionRows(created, id)],
     decision |-> "auto_denied",
     action |-> [created[Len(created)] EXCEPT !.status = "denied"]]
\* (faulty variant) a pending Action nobody is told about
GatePendingSilent(w, created, id, req) ==
    [w |-> [w EXCEPT !.actions = created],
     decision |-> "pending",
     action |-> created[Len(created)]]
GatePending(w, created, id, req) ==
    [w |-> [w EXCEPT !.actions = created,
                     !.sent = wsBroadcast(w.sent,
                         createWSMessage("notification.action", id,
                             [action_id |-> id, type |-> req.type,
                              tier |-> req.tier, title |-> req.title,
                              description |-> req.description]))],
     decision |-> "pending",
     action |-> created[Len(created)]]

\* (mutant) the trust rules are consulted before the green tier
submitActionRulesFirst(w, req) ==
    LET id     == ActionIdPool[Len(w.actions) + 1]
        rule   == findTrustRule(SplitDot(req.type)[1], req.type)
        created == createAction(w.actions,
                       [id |-> id, conversation_id |-> req.conversationId,
                        type |-> req.type, tier |-> req.tier, title |-> req.title,
                        description |-> req.description])
        ruleSays(d) == \E r \in rule : r.decision = d
    IN IF ruleSays("auto_approve") THEN GateApproved(w, created, id)
       ELSE IF ruleSays("auto_deny") THEN GateDenied(w, created, id)
       ELSE IF req.tier = "green" THEN GateApproved(w, created, id)
       ELSE GatePending(w, created, id, req)

\* (mutant) the notification is broadcast before the trust rules decide
submitActionNotifyFirst(w, req) ==
    LET id     == ActionIdPool[Len(w.actions) + 1]
        rule   == findTrustRule(SplitDot(req.type)[1], req.type)
        created == createAction(w.actions,
                       [id |-> id, conversation_id |-> req.conversationId,
                        type |-> req.type, tier |-> req.tier, title |-> req.title,
                        description |-> req.description])
        ruleSays(d) == \E r \in rule : r.decision = d
        told == GatePending(w, created, id, req).w
    IN IF req.tier = "green" THEN GateApproved(w, created, id)
       ELSE IF ruleSays("auto_approve") THEN GateApproved(told, created, id)
       ELSE IF ruleSays("auto_deny") THEN GateDenied(told, created, id)
       ELSE GatePending(w, created, id, req)

\* submitAction(req) on the tables and socket logs of w; the result is the
\* new w, the decision and the Action returned with it.
submitAction(w, req) ==
    LET id     == ActionIdPool[Len(w.actions) + 1]
        rule   == findTrustRule(SplitDot(req.type)[1], req.type)
        actionData == [id |-> id, conversation_id |-> req.conversationId,
                       type |-> req.type, tier |-> req.tier, title |-> req.title,
                       description |-> req.description]
        created == createAction(w.actions, actionData)
        ruleSays(d) == \E r \in rule : r.decision = d
    IN IF req.tier = "green" THEN GateApproved(w, created, id)
       ELSE IF ruleSays("auto_approve") THEN GateApproved(w, created, id)
       ELSE IF ruleSays("auto_deny") THEN GateDenied(w, created, id)
       ELSE GatePending(w, created, id, req)

\* (mutant) handleDeny that does not look at the repository's result
handleDenyUnchecked(acts, actionId) ==
    getAction(denyActionRows(acts, actionId), actionId)

\* handleApprove / handleDeny: the resolved row, or <<>> for null.
handleApprove(acts, actionId) ==
    IF Changes(acts, actionId) > 0
    THEN getAction(approveActionRows(acts, actionId), actionId)
    ELSE <<>>
handleDeny(acts, actionId) ==
    IF Changes(acts, actionId) > 0
    THEN getAction(denyActionRows(acts, actionId), actionId)
    ELSE <<>>

\* ---------------------------------------------------------- actions routes
\* Bodies that pass submitBodySchema.
RestRequests ==
    { [type |-> ShellExec, tier |-> "green", title |-> "run", description |-> <<>>,
       conversationId |-> <<>>],
      [type |-> ShellExec, tier |-> "yellow", title |-> "run", description |-> <<"why">>,
       conversationId |-> <<>>],
      [type |-> ShellExec, tier |-> "red", title |-> "run", description |-> <<>>,
       conversationId |-> <<>>] }

\* POST /actions
PostActions(req) ==
    /\ Len(actions) < MaxActions
    /\ LET r == submitAction([actions |-> actions, sent |-> sent], req)
       IN /\ actions' = r.w.actions
          /\ sent' = r.w.sent
          /\ reply' = [route |-> "actions", code |-> 200, decision |-> r.decision,
                       action |-> <<r.action.id, r.action.status>>, error |-> ""]
    /\ UNCHANGED <<shells, closeEvents, frames, router, now, ticks, trustRules, rulesMade, clients, readyState, turnVars>>

\* POST /approve/:id
PostApprove(id) ==
    /\ LET row == handleApprove(actions, id)
       IN /\ actions' = approveActionRows(actions, id)
          /\ reply' = IF row = <<>>
                      THEN [route |-> "approve", code |-> 404, decision |-> "",
                            action |-> <<>>,
                            error |-> "Action not found or already resolved"]
                      ELSE [route |-> "approve", code |-> 200, decision |-> "",
                            action |-> <<row[1].id, row[1].status>>, error |-> ""]
    /\ UNCHANGED <<shells, closeEvents, frames, router, now, ticks, trustRules, rulesMade, clients, readyState, sent, turnVars>>

\* POST /deny/:id
PostDeny(id) ==
    /\ LET row == handleDeny(actions, id)
       IN /\ actions' = denyActionRows(actions, id)
          /\ reply' = IF row = <<>>
                      THEN [route |-> "deny", code |-> 404, decision |-> "",
                            action |-> <<>>,
                            error |-> "Action not found or already resolved"]
                      ELSE [route |-> "deny", code |-> 200, decision |-> "",
                            action |-> <<row[1].id, row[1].status>>, error |-> ""]
    /\ UNCHANGED <<shells, closeEvents, frames, router, now, ticks, trustRules, rulesMade, clients, readyState, sent, turnVars>>

\* expireStaleActions(): the periodic sweep
expireStaleActions ==
    /\ actions' = expireOldActionsRows(actions, ACTION_TIMEOUT_MS)
    /\ UNCHANGED <<shells, closeEvents, frames, router, now, ticks, trustRules, rulesMade, clients, readyState, sent,
                   reply, turnVars>>

\* POST /trust-rules: the route draws a fresh identity, writes the rule and
\* answers with that identity.
RuleServices == {"shell", "*"}
RuleActions  == {ShellExec}
PostTrustRules(service, action, decision) ==
    /\ LET id == RuleIdPool[rulesMade + 1]
       IN /\ trustRules' = createTrustRuleRows(id, service, action, decision)
          /\ reply' = [route |-> "trust-rules", code |-> 200, decision |-> "",
                       action |-> <<id>>, error |-> ""]
    /\ rulesMade' = rulesMade + 1
    /\ UNCHANGED <<shells, closeEvents, frames, router, now, ticks, actions, clients, readyState, sent, turnVars>>

\* DELETE /trust-rules/:id: 404 when deleteTrustRule deleted no row.
DeleteTrustRules(id) ==
    /\ trustRules' = deleteTrustRuleRows(id)
    /\ reply' = IF \E r \in trustRules : r.id = id
                THEN [route |-> "delete-trust-rule", code |-> 200, decision |-> "",
                      action |-> <<id>>, error |-> ""]
                ELSE [route |-> "delete-trust-rule", code |-> 404, decision |-> "",
                      action |-> <<id>>, error |-> "Trust rule not found"]
    /\ UNCHANGED <<shells, closeEvents, frames, router, now, ticks, actions, rulesMade, clients, readyState, sent,
                   turnVars>>

\* ------------------------------------------------------- websocket route
\* A client connects: wsManager.add(sessionId, socket).
WsConnect(sock) ==
    /\ readyState[sock] = 0
    /\ readyState' = [readyState EXCEPT ![sock] = WS_OPEN]
    /\ clients' = [clients EXCEPT ![SessionOf(sock)] = sock]
    /\ UNCHANGED <<shells, closeEvents, frames, router, now, ticks, actions, trustRules, rulesMade, sent, reply, turnVars>>

\* A connection goes down; its close event is still to be dispatched.
SocketDown(sock) ==
    /\ readyState[sock] = WS_OPEN
    /\ readyState' = [readyState EXCEPT ![sock] = WS_CLOSED]
    /\ closeEvents' = closeEvents \cup {sock}
    /\ UNCHANGED <<shells, frames, router, now, ticks, actions, trustRules, rulesMade, clients, sent,
                   reply, turnVars>>

\* socket.on('close'): wsManager.remove(sessionId)
WsClose(sock) ==
    /\ sock \in closeEvents
    /\ closeEvents' = closeEvents \ {sock}
    /\ clients' = [clients EXCEPT ![SessionOf(sock)] = NoSocket]
    /\ UNCHANGED <<shells, frames, router, now, ticks, actions, trustRules, rulesMade, readyState, sent,
                   reply, turnVars>>

\* ---------------------------------------------------------- inbound frames
MaxFrames == 2
\* An envelope as a client sends it: { type, id, payload }.
Envelope(type, id, payload) == [json |-> "object", type |-> type, id |-> id, payload |-> payload]
\* Frames that are no envelope: text that is not JSON, the JSON text `null`,
\* and a JSON object without type and id (their reads give undefined,
\* written "" here; JSON.stringify leaves an undefined id out).
NotJson == [json |-> "invalid", type |-> "", id |-> "", payload |-> <<>>]
JsonNull == [json |-> "null", type |-> "", id |-> "", payload |-> <<>>]
BareObject == [json |-> "object", type |-> "", id |-> "", payload |-> <<>>]
InboundFrames ==
    {NotJson, JsonNull, BareObject,
     Envelope("ping", "p1", <<>>),
     Envelope("action.approve", "d1", <<"a1">>),
     Envelope("action.deny", "d1", <<"a1">>)}
NoFrames == [count |-> 0, sock |-> 0, frame |-> NotJson]

\* socket.send(...) of the message handler: written if the socket is open.
socketSend(log, sock, message) ==
    IF readyState[sock] = WS_OPEN THEN [log EXCEPT ![sock] = Append(@, message)] ELSE log

\* socket.on('message') on a frame other than chat.send and chat.cancel:
\* JSON.parse fails and the sentinel error is sent; the switch answers a
\* ping, and anything else, the two decisions included, with an
\* unknown-type error under the frame's id. On the JSON text `null` the
\* read of msg.type throws inside the async listener: nothing is sent, and
\* the unhandled rejection either passes or takes the process, and with it
\* every connection, down.
WsFrame(sock, frame) ==
    /\ readyState[sock] = WS_OPEN
    /\ frames' = [count |-> frames.count + 1, sock |-> sock, frame |-> frame]
    /\ IF frame.json = "invalid"
       THEN /\ sent' = socketSend(sent, sock,
                           createWSMessage("chat.error", "unknown", [error |-> "Invalid JSON"]))
            /\ UNCHANGED readyState
       ELSE IF frame.json = "null"
       THEN /\ UNCHANGED sent
            /\ \/ UNCHANGED readyState
               \/ readyState' = [k \in Sockets |->
                                    IF readyState[k] = WS_OPEN THEN WS_CLOSED
                                    ELSE readyState[k]]
       ELSE IF frame.type = "ping"
       THEN /\ sent' = socketSend(sent, sock, createWSMessage("pong", frame.id, <<>>))
            /\ UNCHANGED readyState
       ELSE /\ sent' = socketSend(sent, sock,
                           createWSMessage("chat.error", frame.id,
                                           [error |-> <<"Unknown type", frame.type>>]))
            /\ UNCHANGED readyState
    /\ UNCHANGED <<shells, closeEvents, router, now, ticks, actions, trustRules, rulesMade,
                   clients, reply, turnVars>>

\* ------------------------------------------------------------ PTY shells
MaxPtys == 3
MaxOutput == 1
Tabs == {"tab1", "tab2"}
\* shellKey(sessionId, tabId): the text "sessionId:tabId" as the pair.
shellKey(sessionId, tabId) == <<sessionId, tabId>>
ShellKeys == {shellKey(s, tb) : s \in Sessions, tb \in Tabs}

\* shells.ptys: the PTYs spawned so far, each with the key and the
\* messageId of its PtyShell entry and the state of its process: "live",
\* "killed" (pty.kill() was called, the exit callback has not run yet) or
\* "exited". shells.active: the map activeShells, key -> index of the
\* entry's PTY, 0 for no entry.
NoShells == [ptys |-> <<>>, active |-> [k \in ShellKeys |-> 0]]

\* ensureShell: the entry of the key is reused with the new messageId, or a
\* PTY is spawned and registered.
ensureShell(sh, sessionId, messageId, tabId) ==
    LET key == shellKey(sessionId, tabId)
    IN IF sh.active[key] # 0
       THEN [sh EXCEPT !.ptys[sh.active[key]].messageId = messageId]
       ELSE [sh EXCEPT !.ptys = Append(@, [key |-> key, messageId |-> messageId,
                                           state |-> "live"]),
                       !.active[key] = Len(sh.ptys) + 1]

\* killShellByKey: pty.kill() and activeShells.delete(key), if there is an
\* entry.
killShellByKey(sh, key) ==
    IF sh.active[key] # 0
    THEN [sh EXCEPT !.ptys[sh.active[key]].state =
                        IF @ = "live" THEN "killed" ELSE @,
                    !.active[key] = 0]
    ELSE sh

\* handleShellExec: ensureShell, then the command is written to the PTY.
handleShellExec(sessionId, messageId, tabId) ==
    /\ shells' = ensureShell(shells, sessionId, messageId, tabId)
    /\ UNCHANGED <<closeEvents, frames, router, now, ticks, actions, trustRules, rulesMade,
                   clients, readyState, sent, reply, turnVars>>

\* handleShellKill
handleShellKill(sessionId, tabId) ==
    /\ shells' = killShellByKey(shells, shellKey(sessionId, tabId))
    /\ UNCHANGED <<closeEvents, frames, router, now, ticks, actions, trustRules, rulesMade,
                   clients, readyState, sent, reply, turnVars>>

\* cleanupShells(sessionId): killShellByKey on every key of the session.
cleanupShells(sessionId) ==
    /\ shells' = [ptys |-> [p \in 1..Len(shells.ptys) |->
                              IF /\ shells.ptys[p].key[1] = sessionId
                                 /\ shells.active[shells.ptys[p].key] = p
                                 /\ shells.ptys[p].state = "live"
                              THEN [shells.ptys[p] EXCEPT !.state = "killed"]
                              ELSE shells.ptys[p]],
                   active |-> [k \in ShellKeys |->
                                 IF k[1] = sessionId THEN 0 ELSE shells.active[k]]]
    /\ UNCHANGED <<closeEvents, frames, router, now, ticks, actions, trustRules, rulesMade,
                   clients, readyState, sent, reply, turnVars>>

\* term.onData: the output is sent to the session under the entry's
\* messageId. The callback tests nothing: a PTY that was killed writes until
\* its process has exited.
PtyData(p) ==
    /\ shells.ptys[p].state \in {"live", "killed"}
    /\ sent' = wsSend(sent, shells.ptys[p].key[1],
                      createWSMessage("shell.output", shells.ptys[p].messageId,
                                      [tab_id |-> shells.ptys[p].key[2]]))
    /\ UNCHANGED <<shells, closeEvents, frames, router, now, ticks, actions, trustRules,
                   rulesMade, clients, readyState, reply, turnVars>>

\* term.onExit of PTY p, after a kill or when the shell ends by itself:
\* activeShells.delete(key), then shell.exit is sent.
PtyExit(p) ==
    /\ shells.ptys[p].state \in {"live", "killed"}
    /\ shells' = [shells EXCEPT !.ptys[p].state = "exited",
                                !.active[shells.ptys[p].key] = 0]
    /\ sent' = wsSend(sent, shells.ptys[p].key[1],
                      createWSMessage("shell.exit", shells.ptys[p].messageId,
                                      [tab_id |-> shells.ptys[p].key[2]]))
    /\ UNCHANGED <<closeEvents, frames, router, now, ticks, actions, trustRules, rulesMade,
                   clients, readyState, reply, turnVars>>

\* ----------------------------------------------------------------- clock
Tick(d) ==
    /\ now' = now + d
    /\ ticks' = ticks + 1
    /\ UNCHANGED <<shells, closeEvents, frames, router, actions, trustRules, rulesMade, clients, readyState, sent,
                   reply, turnVars>>


\* ------------------------------------------------------------ skill table
\* A tool name "<skill>__<action>" is the sequence of its "__"-separated
\* parts; tool arguments are JSON text.
ToolNames == {<<"browser", "open">>, <<"clipboard", "write">>, <<"shell", "exec">>,
              <<"ghost", "run">>, <<"shellexec">>}
ToolArguments == {"{}", "{"}

\* JSON.parse(tc.function.arguments): the text parses or the call throws.
JsonParses(text) == text = "{}"

\* parseToolName(apiName): [skillId, actionName], or <<>> for null.
parseToolName(apiName) == IF Len(apiName) = 2 THEN apiName ELSE <<>>

\* getActionTier(apiName): the declared tier, or "" for undefined.
getActionTier(apiName) ==
    IF apiName = <<"browser", "open">> THEN "green"
    ELSE IF apiName = <<"clipboard", "write">> THEN "yellow"
    ELSE IF apiName = <<"shell", "exec">> THEN "red"
    ELSE ""

\* A result of executeTool: { success: boolean; result?: unknown; error?:
\* string }. An absent field is <<>>, a present one <<value>>.
SkillResults ==
    {[success |-> TRUE, result |-> <<"ok">>, error |-> <<>>],
     [success |-> TRUE, result |-> <<>>, error |-> <<>>],
     [success |-> FALSE, result |-> <<>>, error |-> <<"boom">>]}

\* executeSkillAction(skillId, actionName, args): the results the host tool
\* may resolve with.
executeSkillAction(skillId, actionName) == SkillResults

Failure(error) == [success |-> FALSE, result |-> <<>>, error |-> <<error>>]

\* The error text of a result, "" for none.
ErrorOf(result) == IF result.error = <<>> THEN "" ELSE result.error[1]

\* JSON.stringify(result.result ?? result.error).slice(0, 200) in the log
\* line of streamMessage: with neither field the text is undefined and the
\* read of its slice throws.
SLICE_OF_UNDEFINED == "Cannot read properties of undefined (reading 'slice')"
LogLineThrows(result) == result.result = <<>> /\ result.error = <<>>

\* The tool calls a backend response may carry.
ToolCallKinds ==
    { [name |-> <<"browser", "open">>, arguments |-> "{}"],
      [name |-> <<"clipboard", "write">>, arguments |-> "{}"],
      [name |-> <<"shell", "exec">>, arguments |-> "{}"],
      [name |-> <<"shell", "exec">>, arguments |-> "{"],
      [name |-> <<"ghost", "run">>, arguments |-> "{}"],
      [name |-> <<"shellexec">>, arguments |-> "{}"] }

\* Whether executeTool takes the call to submitAction.
Gated(tc) ==
    /\ JsonParses(tc.arguments)
    /\ parseToolName(tc.name) # <<>>
    /\ getActionTier(tc.name) \in {"yellow", "red"}

\* ------------------------------------------------------------ message store
MsgIds == {"m1", "m2"}
HISTORY_LIMIT == 50
TITLE_LENGTH == 80
\* nanoid() for messages: a fresh identity at every call.
MessageIdPool == [i \in 1..(HISTORY_LIMIT + 10) |-> "msg" \o ToString(i)]
SYSTEM_PROMPT == <<"You are FutureBox">>
Tokens == {"a", "b"}
UserText == <<"h", "i">>

\* createMessage
createMessage(msgs, conv, role, content) ==
    Append(msgs, [id |-> MessageIdPool[Len(msgs) + 1], conversation_id |-> conv,
                  role |-> role, content |-> content])

\* listMessages(conversationId, limit): ORDER BY created_at ASC LIMIT limit
listMessages(msgs, conv, limit) ==
    LET mine == SelectSeq(msgs, LAMBDA m : m.conversation_id = conv)
    IN SubSeq(mine, 1, IF Len(mine) < limit THEN Len(mine) ELSE limit)

\* userContent.slice(0, 80)
Slice(text, n) == SubSeq(text, 1, IF Len(text) < n THEN Len(text) ELSE n)

\* enum Capability
Capabilities == {"language", "reasoning", "vision", "stt", "tts"}
Language == "language"

\* (faulty variant) the message does not name the capability
AllFailedUnnamed(capability) == "All providers failed for capability"

\* The messages of the errors the router throws: each ends with the name of
\* the capability the call was made for.
NO_PROVIDER(capability) == "No provider assigned for capability: " \o capability
ALL_FAILED(capability) == "All providers failed for capability: " \o capability
\* The messages routeChat / routeChatStream can throw to a chat turn, which
\* routes by Capability.Language.
RouterErrors == {NO_PROVIDER(Language), ALL_FAILED(Language)}

\* ----------------------------------------------------------------- router
\* What a slot's provider does when it is asked: isAvailable() resolves
\* false or rejects; or it resolves true and chat / chatStream rejects at
\* once, fails after a first text increment, or succeeds.
Behaviours == {"unavailable", "probe_raises", "chat_raises", "breaks", "healthy"}
MaxChain == 3
RECURSIVE ChainsOf(_)
ChainsOf(n) ==
    IF n = 0 THEN {<<>>}
    ELSE {Append(c, b) : c \in ChainsOf(n - 1), b \in Behaviours}
\* registry.resolveChain(capability): the slots of the capability, in order.
Chains == UNION {ChainsOf(n) : n \in 0..MaxChain}

IdleRouter ==
    [pc |-> "idle", mode |-> "", capability |-> "", chain |-> <<>>, slot |-> 0,
     log |-> <<>>, yielded |-> <<>>, result |-> 0, error |-> ""]

\* `for (const slot of chain)` moves on: the next slot's isAvailable() is
\* called, or the chain is used up and the router throws.
NextSlot(r) ==
    IF r.slot < Len(r.chain)
    THEN [r EXCEPT !.slot = @ + 1, !.pc = "probe",
                   !.log = Append(@, [op |-> "isAvailable", slot |-> r.slot + 1])]
    ELSE [r EXCEPT !.pc = "threw", !.error = ALL_FAILED(r.capability)]

\* (faulty variant) the availability of every slot is asked up front
StartRouteProbesAll(mode, capability, chain) ==
    IF chain = <<>>
    THEN [IdleRouter EXCEPT !.mode = mode, !.capability = capability, !.pc = "threw",
                            !.error = NO_PROVIDER(capability)]
    ELSE [IdleRouter EXCEPT !.mode = mode, !.capability = capability,
             !.chain = chain, !.slot = 1, !.pc = "probe",
             !.log = [i \in 1..Len(chain) |-> [op |-> "isAvailable", slot |-> i]]]

\* (faulty variant) the chain is walked without the test for an empty one
StartRouteWalksEmpty(mode, capability, chain) ==
    NextSlot([IdleRouter EXCEPT !.mode = mode, !.capability = capability,
                                !.chain = chain])

\* routeChat / routeChatStream up to their first await: the chain is
\* resolved; an empty chain throws, otherwise the first slot is probed.
StartRoute(mode, capability, chain) ==
    IF chain = <<>>
    THEN [IdleRouter EXCEPT !.mode = mode, !.capability = capability, !.pc = "threw",
                            !.error = NO_PROVIDER(capability)]
    ELSE NextSlot([IdleRouter EXCEPT !.mode = mode, !.capability = capability,
                                     !.chain = chain])

routeChat(capability, chain) ==
    /\ router.pc = "idle"
    /\ router' = StartRoute("chat", capability, chain)
    /\ UNCHANGED <<shells, closeEvents, frames, now, ticks, actions, trustRules, rulesMade, clients, readyState, sent,
                   reply, turnVars>>

routeChatStream(capability, chain) ==
    /\ router.pc = "idle"
    /\ router' = StartRoute("stream", capability, chain)
    /\ UNCHANGED <<shells, closeEvents, frames, now, ticks, actions, trustRules, rulesMade, clients, readyState, sent,
                   reply, turnVars>>

\* `await provider.isAvailable()` settles: true calls chat / chatStream on
\* the slot, false and a rejection go on to the next slot.
IsAvailableSettles ==
    /\ router.pc = "probe"
    /\ router' = IF router.chain[router.slot] \in {"unavailable", "probe_raises"}
                 THEN NextSlot(router)
                 ELSE [router EXCEPT !.pc = "chat",
                          !.log = Append(@, [op |-> "chat", slot |-> router.slot])]
    /\ UNCHANGED <<shells, closeEvents, frames, now, ticks, actions, trustRules, rulesMade, clients, readyState, sent,
                   reply, turnVars>>

\* `yield* provider.chatStream(...)` passes a text increment on to the caller.
ChatStreamYields ==
    /\ router.pc = "chat"
    /\ router.mode = "stream"
    /\ router.chain[router.slot] \in {"breaks", "healthy"}
    /\ \A i \in 1..Len(router.yielded) : router.yielded[i] # router.slot
    /\ router' = [router EXCEPT !.yielded = Append(@, router.slot)]
    /\ UNCHANGED <<shells, closeEvents, frames, now, ticks, actions, trustRules, rulesMade, clients, readyState, sent,
                   reply, turnVars>>

\* (faulty variant) a rejection of the call is not swallowed: the router
\* throws at the first slot whose call fails
ChatSettlesGivesUp ==
    /\ router.pc = "chat"
    /\ router.mode = "stream" /\ router.chain[router.slot] \in {"breaks", "healthy"}
          => \E i \in 1..Len(router.yielded) : router.yielded[i] = router.slot
    /\ router' = IF router.chain[router.slot] = "healthy"
                 THEN [router EXCEPT !.pc = "returned", !.result = router.slot]
                 ELSE [router EXCEPT !.pc = "threw",
                                      !.error = ALL_FAILED(router.capability)]
    /\ UNCHANGED <<shells, closeEvents, frames, now, ticks, actions, trustRules, rulesMade, clients, readyState, sent,
                   reply, turnVars>>

\* provider.chat settles, or the provider's stream ends: its response is
\* returned, a rejection is swallowed and the next slot is tried.
ChatSettles ==
    /\ router.pc = "chat"
    /\ router.mode = "stream" /\ router.chain[router.slot] \in {"breaks", "healthy"}
          => \E i \in 1..Len(router.yielded) : router.yielded[i] = router.slot
    /\ router' = IF router.chain[router.slot] = "healthy"
                 THEN [router EXCEPT !.pc = "returned", !.result = router.slot]
                 ELSE NextSlot(router)
    /\ UNCHANGED <<shells, closeEvents, frames, now, ticks, actions, trustRules, rulesMade, clients, readyState, sent,
                   reply, turnVars>>

\* ------------------------------------------------------------------- turn
IdleTurn ==
    [pc |-> "idle", sessionId |-> "", messageId |-> "", conversation_id |-> <<>>,
     convId |-> "", aborted |-> FALSE, round |-> 0, final |-> FALSE,
     hadToolCalls |-> FALSE, roundContent |-> <<>>, allContent |-> <<>>,
     historyLength |-> 0, ctx |-> <<>>, calls |-> <<>>, callsMade |-> 0,
     actionId |-> "", deadline |-> 0, wakeAt |-> 0, results |-> <<>>,
     assistantMsgId |-> "", mode |-> "", failed |-> FALSE, error |-> "",
     llmCalls |-> <<>>, userContent |-> <<>>]

\* The part of the state a run of the turn reads and writes.
World ==
    [actions |-> actions, sent |-> sent, messages |-> messages,
     conversations |-> conversations, activeStreams |-> activeStreams,
     execLog |-> execLog, t |-> t]

Commit(w) ==
    /\ actions' = w.actions
    /\ sent' = w.sent
    /\ messages' = w.messages
    /\ conversations' = w.conversations
    /\ activeStreams' = w.activeStreams
    /\ execLog' = w.execLog
    /\ t' = w.t
    /\ t2' = t2

\* The turn of slot s (1 or 2), the state a run of it reads and writes, and
\* the commit of such a run.
NoStream == 0
TurnOf(s) == IF s = 1 THEN t ELSE t2
WorldOf(s) == [World EXCEPT !.t = TurnOf(s)]
CommitTo(s, w) ==
    /\ actions' = w.actions
    /\ sent' = w.sent
    /\ messages' = w.messages
    /\ conversations' = w.conversations
    /\ activeStreams' = w.activeStreams
    /\ execLog' = w.execLog
    /\ IF s = 1 THEN t' = w.t /\ t2' = t2 ELSE t2' = w.t /\ t' = t

\* payload.conversation_id ?? ''
ConvOrEmpty(w) == IF w.t.conversation_id = <<>> THEN "" ELSE w.t.conversation_id[1]

\* (mutant) a handler that never looks at the abort signal
HandlerNeverBreaks(w) == FALSE

\* `if (abort.signal.aborted) break;` at the head of the handler's loop body
HandlerBreaks(w) == w.t.aborted

\* finally { activeStreams.delete(messageId) }: the handler is over. Leaving
\* the loop by break returns the generator where it is suspended.
HandlerEnd(w) ==
    [w EXCEPT !.activeStreams[w.t.messageId] = NoStream, !.t.pc = "ended"]

\* (faulty variant) a handler that writes every envelope twice
ForwardTwice(w, type, payload) ==
    [w EXCEPT !.sent = wsSend(wsSend(w.sent, w.t.sessionId,
                                     createWSMessage(type, w.t.messageId, payload)),
                              w.t.sessionId,
                              createWSMessage(type, w.t.messageId, payload))]

\* One pass of the handler's loop body on a chunk of the generator: the
\* envelope is sent to the turn's session unless the turn is aborted.
Forward(w, type, payload) ==
    [w EXCEPT !.sent = wsSend(w.sent, w.t.sessionId,
                              createWSMessage(type, w.t.messageId, payload))]

\* createConversation / updateConversationTimestamp / updateConversationTitle
createConversation(convs, id) ==
    Append(convs, [id |-> id, title |-> <<>>, updated_at |-> SqlDatetime(now)])
\* getConversation(id): the first row of that identity, <<>> for undefined.
getConversation(convs, id) ==
    LET found == {i \in 1..Len(convs) : convs[i].id = id}
    IN IF found = {} THEN <<>>
       ELSE <<convs[CHOOSE i \in found : \A j \in found : i <= j]>>
updateConversationTimestamp(convs, id) ==
    [i \in 1..Len(convs) |->
        IF convs[i].id = id THEN [convs[i] EXCEPT !.updated_at = SqlDatetime(now)]
        ELSE convs[i]]
updateConversationTitle(convs, id, title) ==
    [i \in 1..Len(convs) |->
        IF convs[i].id = id
        THEN [convs[i] EXCEPT !.title = title, !.updated_at = SqlDatetime(now)]
        ELSE convs[i]]

\* The identities the backend gives its tool calls.
ToolCallIdPool == [i \in 1..(2 * MAX_TOOL_ROUNDS + 4) |-> "tc" \o ToString(i)]

\* (faulty variant) `done` carries the text of the last round only
FinishSendsRound(w) ==
    LET id == MessageIdPool[Len(w.messages) + 1]
        w1 == [w EXCEPT
                 !.messages = createMessage(@, w.t.convId, "assistant", w.t.allContent),
                 !.conversations = updateConversationTimestamp(@, w.t.convId),
                 !.t.assistantMsgId = id]
    IN IF HandlerBreaks(w1) THEN HandlerEnd(w1)
       ELSE HandlerEnd(Forward(w1, "chat.done",
                [conversation_id |-> w.t.convId, message_id |-> id,
                 content |-> w.t.roundContent]))

\* streamMessage, lines 324-345: the final content is persisted, the
\* conversation stamped and titled, `done` is yielded and the generator ends.
Finish(w) ==
    LET id == MessageIdPool[Len(w.messages) + 1]
        stamped == updateConversationTimestamp(w.conversations, w.t.convId)
        w1 == [w EXCEPT
                 !.messages = createMessage(@, w.t.convId, "assistant", w.t.allContent),
                 !.conversations =
                     IF w.t.historyLength <= 1
                     THEN updateConversationTitle(stamped, w.t.convId,
                                                  Slice(w.t.userContent, TITLE_LENGTH))
                     ELSE stamped,
                 !.t.assistantMsgId = id]
    IN IF HandlerBreaks(w1) THEN HandlerEnd(w1)
       ELSE HandlerEnd(Forward(w1, "chat.done",
                [conversation_id |-> w.t.convId, message_id |-> id,
                 content |-> w.t.allContent]))

\* A request to the backend (routeChatStream or routeChat) with the message
\* list as it is now; `tools` says whether the tool definitions are offered.
NewCall(ctx, tools) ==
    [tools |-> tools, messages |-> ctx, text |-> <<>>, tool_calls |-> <<>>]
CallBackend(w, tools) == [w EXCEPT !.t.llmCalls = Append(@, NewCall(w.t.ctx, tools))]

\* (faulty variant) a round that keeps the flag of the rounds before it
StartRoundKeepsFlag(w) ==
    CallBackend([w EXCEPT !.t.pc = "stream", !.t.roundContent = <<>>], TRUE)

\* The head of the round loop: a new routeChatStream, awaited.
StartRound(w) ==
    CallBackend([w EXCEPT !.t.pc = "stream", !.t.roundContent = <<>>,
                          !.t.hadToolCalls = FALSE], TRUE)

\* (faulty variant) the last stream is requested whenever the loop is left
AfterLoopAlwaysAsks(w) ==
    CallBackend([w EXCEPT !.t.final = TRUE, !.t.pc = "stream"], FALSE)

\* After the round loop (lines 309-324): with tool calls in the last round
\* run, the tool-free last stream; otherwise the turn is finished.
AfterLoop(w) ==
    IF w.t.hadToolCalls
    THEN CallBackend([w EXCEPT !.t.final = TRUE, !.t.pc = "stream"], FALSE)
    ELSE Finish(w)

\* (faulty variant) a round loop without its bound
EndOfRoundUnbounded(w) ==
    IF ~w.t.hadToolCalls THEN AfterLoop(w)
    ELSE StartRound([w EXCEPT !.t.round = @ + 1])

\* The round's backend stream is done and its tool calls, if any, are
\* executed: `if (!hadToolCalls) break;` and the step of the round loop.
EndOfRound(w) ==
    IF ~w.t.hadToolCalls THEN AfterLoop(w)
    ELSE IF w.t.round + 1 < MAX_TOOL_ROUNDS
    THEN StartRound([w EXCEPT !.t.round = @ + 1])
    ELSE AfterLoop([w EXCEPT !.t.round = @ + 1])

\* executeSkillAction is invoked and awaited.
Invoke(w) ==
    LET tc == Head(w.t.calls)
    IN [w EXCEPT !.execLog = Append(@, [tool_call_id |-> tc.id, name |-> tc.name,
                                        tier |-> getActionTier(tc.name),
                                        actionId |-> w.t.actionId]),
                 !.t.pc = "exec"]

\* await new Promise((r) => setTimeout(r, 1000))
Sleep(w) == [w EXCEPT !.t.pc = "sleep", !.t.wakeAt = now + POLL_INTERVAL_MS]

RECURSIVE RunCalls(_)
RECURSIVE AfterTool(_, _)
RECURSIVE Returned(_, _)

\* (faulty variant) the gate is asked before the arguments are parsed
ExecuteToolGatesFirst(w) ==
    LET tc == Head(w.t.calls)
        parsed == parseToolName(tc.name)
        tier == getActionTier(tc.name)
        w0 == [w EXCEPT !.t.actionId = "", !.t.deadline = 0]
    IN IF ~JsonParses(tc.arguments)
       THEN Returned(submitAction(w0, [type |-> tc.name, tier |-> "red",
                                       title |-> "AI wants to run",
                                       description |-> <<tc.arguments>>,
                                       conversationId |-> <<w.t.convId>>]).w,
                     Failure("Invalid tool arguments JSON"))
       ELSE IF parsed = <<>>
       THEN Returned(w0, Failure("Invalid tool name format"))
       ELSE IF tier = ""
       THEN Returned(w0, Failure("Unknown tool"))
       ELSE IF tier = "green"
       THEN Invoke(w0)
       ELSE LET r == submitAction(w0,
                        [type |-> parsed, tier |-> tier,
                         title |-> "AI wants to run",
                         description |-> <<tc.arguments>>,
                         conversationId |-> <<w.t.convId>>])
                w1 == [r.w EXCEPT !.t.actionId = r.action.id]
            IN IF r.decision = "auto_approved" THEN Invoke(w1)
               ELSE IF r.decision = "auto_denied"
               THEN Returned(w1, Failure("Action denied by trust rules"))
               ELSE Sleep([w1 EXCEPT !.t.deadline = now + WAIT_BUDGET_MS])

\* executeTool(tc, convId) up to its first await or its return.
ExecuteTool(w) ==
    LET tc == Head(w.t.calls)
        parsed == parseToolName(tc.name)
        tier == getActionTier(tc.name)
        w0 == [w EXCEPT !.t.actionId = "", !.t.deadline = 0]
    IN IF ~JsonParses(tc.arguments)
       THEN Returned(w0, Failure("Invalid tool arguments JSON"))
       ELSE IF parsed = <<>>
       THEN Returned(w0, Failure("Invalid tool name format"))
       ELSE IF tier = ""
       THEN Returned(w0, Failure("Unknown tool"))
       ELSE IF tier = "green"
       THEN Invoke(w0)
       ELSE LET r == submitAction(w0,
                        [type |-> parsed, tier |-> tier,
                         title |-> "AI wants to run",
                         description |-> <<tc.arguments>>,
                         conversationId |-> <<w.t.convId>>])
                w1 == [r.w EXCEPT !.t.actionId = r.action.id]
            IN IF r.decision = "auto_approved" THEN Invoke(w1)
               ELSE IF r.decision = "auto_denied"
               THEN Returned(w1, Failure("Action denied by trust rules"))
               ELSE Sleep([w1 EXCEPT !.t.deadline = now + WAIT_BUDGET_MS])

\* (faulty variant) every tool call of the round is announced before the
\* first one is executed
RunCallsAnnouncesAll(w) ==
    IF w.t.calls = <<>> THEN EndOfRound(w)
    ELSE IF HandlerBreaks(w) THEN HandlerEnd(w)
    ELSE LET announce(v, tc) ==
                 Forward(v, "chat.tool_start",
                     [conversation_id |-> ConvOrEmpty(w), tool_call_id |-> tc.id,
                      tool_name |-> tc.name, arguments |-> tc.arguments])
             first == announce(w, Head(w.t.calls))
         IN ExecuteTool(IF Len(w.t.calls) > 1 THEN announce(first, w.t.calls[2])
                        ELSE first)

\* streamMessage, lines 266-277: tool_start is yielded for the next tool
\* call of the round and the call is executed.
RunCalls(w) ==
    IF w.t.calls = <<>> THEN EndOfRound(w)
    ELSE IF HandlerBreaks(w) THEN HandlerEnd(w)
    ELSE ExecuteTool(Forward(w, "chat.tool_start",
             [conversation_id |-> ConvOrEmpty(w), tool_call_id |-> Head(w.t.calls).id,
              tool_name |-> Head(w.t.calls).name,
              arguments |-> IF JsonParses(Head(w.t.calls).arguments)
                            THEN Head(w.t.calls).arguments ELSE "{}"]))

\* (faulty variant) a failed tool call is thrown out of the turn
AfterToolThrows(w, result) ==
    LET tc == Head(w.t.calls)
        w1 == [w EXCEPT !.t.results =
                  Append(@, [tool_call_id |-> tc.id, success |-> result.success,
                             result |-> result.result,
                             error |-> ErrorOf(result), actionId |-> w.t.actionId,
                             deadline |-> w.t.deadline])]
    IN IF LogLineThrows(result)
       THEN HandlerEnd(Forward([w1 EXCEPT !.t.failed = TRUE,
                                          !.t.error = SLICE_OF_UNDEFINED],
                "chat.error",
                [conversation_id |-> w.t.conversation_id,
                 error |-> SLICE_OF_UNDEFINED]))
       ELSE IF ~result.success
       THEN HandlerEnd(Forward([w1 EXCEPT !.t.failed = TRUE, !.t.error = ErrorOf(result)],
                "chat.error",
                [conversation_id |-> w.t.conversation_id, error |-> ErrorOf(result)]))
       ELSE IF HandlerBreaks(w1) THEN HandlerEnd(w1)
       ELSE RunCalls([Forward(w1, "chat.tool_result",
                          [conversation_id |-> ConvOrEmpty(w), tool_call_id |-> tc.id,
                           tool_name |-> tc.name, success |-> result.success,
                           result |-> result.result, error |-> ErrorOf(result)])
                      EXCEPT !.t.ctx = Append(@, [role |-> "tool", tool_call_id |-> tc.id,
                                                  content |-> <<result>>]),
                             !.t.calls = Tail(@)])

\* executeTool has returned `result`: streamMessage, lines 278-294. An
\* error thrown by the log line leaves the generator and is caught by the
\* handler, which sends chat.error.
AfterTool(w, result) ==
    LET tc == Head(w.t.calls)
        w1 == [w EXCEPT !.t.results =
                  Append(@, [tool_call_id |-> tc.id, success |-> result.success,
                             result |-> result.result,
                             error |-> ErrorOf(result), actionId |-> w.t.actionId,
                             deadline |-> w.t.deadline])]
    IN IF LogLineThrows(result)
       THEN HandlerEnd(Forward([w1 EXCEPT !.t.failed = TRUE,
                                          !.t.error = SLICE_OF_UNDEFINED],
                "chat.error",
                [conversation_id |-> w.t.conversation_id,
                 error |-> SLICE_OF_UNDEFINED]))
       ELSE IF HandlerBreaks(w1) THEN HandlerEnd(w1)
       ELSE RunCalls([Forward(w1, "chat.tool_result",
                          [conversation_id |-> ConvOrEmpty(w), tool_call_id |-> tc.id,
                           tool_name |-> tc.name, success |-> result.success,
                           result |-> result.result, error |-> ErrorOf(result)])
                      EXCEPT !.t.ctx = Append(@, [role |-> "tool", tool_call_id |-> tc.id,
                                                  content |-> <<result>>]),
                             !.t.calls = Tail(@)])

\* sendMessage, lines 181-204: the final content is persisted, the
\* conversation stamped and titled, and the result is returned.
SendFinish(w) ==
    LET stamped == updateConversationTimestamp(w.conversations, w.t.convId)
    IN [w EXCEPT
          !.messages = createMessage(@, w.t.convId, "assistant", w.t.allContent),
          !.conversations =
              IF w.t.historyLength <= 1
              THEN updateConversationTitle(stamped, w.t.convId,
                                           Slice(w.t.userContent, TITLE_LENGTH))
              ELSE stamped,
          !.t.assistantMsgId = MessageIdPool[Len(w.messages) + 1],
          !.t.pc = "ended"]

\* sendMessage, lines 174-179: after the round loop, one more routeChat
\* without tools if any round of the turn had tool calls.
SendAfterLoop(w) ==
    IF w.t.hadToolCalls
    THEN CallBackend([w EXCEPT !.t.final = TRUE, !.t.pc = "chat"], FALSE)
    ELSE SendFinish(w)

\* The step of sendMessage's round loop after the tool calls of a round.
SendEndOfRound(w) ==
    IF w.t.round + 1 < MAX_TOOL_ROUNDS
    THEN CallBackend([w EXCEPT !.t.round = @ + 1, !.t.pc = "chat"], TRUE)
    ELSE SendAfterLoop([w EXCEPT !.t.round = @ + 1])

\* sendMessage, lines 163-171: the tool calls of a response are executed
\* in turn, each result pushed to the message list.
SendRunCalls(w) ==
    IF w.t.calls = <<>> THEN SendEndOfRound(w) ELSE ExecuteTool(w)
SendAfterTool(w, result) ==
    LET tc == Head(w.t.calls)
    IN SendRunCalls([w EXCEPT
          !.t.results = Append(@, [tool_call_id |-> tc.id, success |-> result.success,
                                   result |-> result.result,
                                   error |-> ErrorOf(result), actionId |-> w.t.actionId,
                                   deadline |-> w.t.deadline]),
          !.t.ctx = Append(@, [role |-> "tool", tool_call_id |-> tc.id,
                               content |-> <<result>>]),
          !.t.calls = Tail(@)])

\* executeTool returns `result` to the loop that awaited it.
Returned(w, result) ==
    IF w.t.mode = "send" THEN SendAfterTool(w, result) ELSE AfterTool(w, result)

\* (mutant) a poll that runs the tool on any resolved status
PollOutcomeAnyResolved(row, deadline) ==
    IF row = <<>> THEN "not_found"
    ELSE IF row[1].status # "pending" THEN "approved"
    ELSE IF now < deadline THEN "sleep"
    ELSE "timeout"

\* (mutant) a poll that looks at the clock before it looks at the status
PollOutcomeClockFirst(row, deadline) ==
    IF row = <<>> THEN "not_found"
    ELSE IF now >= deadline THEN "timeout"
    ELSE IF row[1].status = "approved" THEN "approved"
    ELSE IF row[1].status = "denied" THEN "denied"
    ELSE "sleep"

\* One pass of executeTool's poll loop after its timer (lines 99-109 and
\* the loop test of line 97).
PollOutcome(row, deadline) ==
    IF row = <<>> THEN "not_found"
    ELSE IF row[1].status = "approved" THEN "approved"
    ELSE IF row[1].status = "denied" THEN "denied"
    ELSE IF now < deadline THEN "sleep"
    ELSE "timeout"

\* (faulty variant) a wait that never gives up
PollTimeoutSleeps(w) == [w EXCEPT !.t.pc = "sleep"]

\* (mutant) a wait that expires the Action it gave up on
PollTimeoutExpires(w) ==
    Returned([w EXCEPT !.actions = ResolveWhere(@, w.t.actionId, "expired")],
              Failure("Action approval timed out"))

\* executeTool, line 111
PollTimeout(w) == Returned(w, Failure("Action approval timed out"))

\* ---------------------------------------------------------- turn actions
\* The message list of round 1: the system instruction, then the history.
FirstMessages(history) ==
    <<[role |-> "system", tool_call_id |-> "", content |-> SYSTEM_PROMPT]>>
    \o [i \in 1..Len(history) |->
          [role |-> history[i].role, tool_call_id |-> "", content |-> history[i].content]]

\* nanoid() for a conversation: an identity no stored conversation has.
ConvIdPool == <<"conv-new", "conv-new2", "conv-new3">>
FreshConvId(convs) ==
    ConvIdPool[CHOOSE i \in 1..Len(ConvIdPool) :
                  /\ getConversation(convs, ConvIdPool[i]) = <<>>
                  /\ \A j \in 1..(i - 1) : getConversation(convs, ConvIdPool[j]) # <<>>]

\* `!conversationId`: no identity was given, or the empty text.
NoConversationId(conversation_id) ==
    conversation_id = <<>> \/ conversation_id = <<"">>

\* const convId = conversationId ?? nanoid()
ConvIdFor(convs, conversation_id) ==
    IF conversation_id = <<>> THEN FreshConvId(convs) ELSE conversation_id[1]

\* The INSERT of createConversation on a stored identity: that happens for
\* the empty text, which is created without a look at the store. The schema
\* of the table is not part of the sources: where the store is keyed by the
\* conversation identity (`keyed`) the INSERT throws, where it is not the
\* INSERT adds a second row of that identity.
UNIQUE_FAILED == "UNIQUE constraint failed: conversations.id"
CreateThrows(keyed, convs, conversation_id) ==
    /\ keyed
    /\ NoConversationId(conversation_id)
    /\ getConversation(convs, ConvIdFor(convs, conversation_id)) # <<>>

\* The conversation is created when no identity was given or the given one
\* is not stored.
ConversationsFor(convs, conversation_id) ==
    IF NoConversationId(conversation_id)
    THEN createConversation(convs, ConvIdFor(convs, conversation_id))
    ELSE IF getConversation(convs, conversation_id[1]) = <<>>
    THEN createConversation(convs, conversation_id[1])
    ELSE convs

\* Each behaviour of the specifications below has one request per slot.
OneTurn(s) == TurnOf(s).pc = "idle"

\* A slot takes a new request when it holds no request in progress. The
\* backend calls of the requests a slot has held stay in llmCalls.
Free(s) == TurnOf(s).pc \in {"idle", "ended"}
FreshTurn(s) == [IdleTurn EXCEPT !.llmCalls = TurnOf(s).llmCalls]

\* socket.on('message') with a chat.send envelope: handleChatSend runs up to
\* the first backend read of streamMessage.
ChatSendIn(s, sock, messageId, conversation_id) ==
    /\ Free(s)
    /\ readyState[sock] = WS_OPEN
    /\ \E keyed \in BOOLEAN :
       LET convId == ConvIdFor(conversations, conversation_id)
           stored == createMessage(messages, convId, "user", UserText)
           history == listMessages(stored, convId, HISTORY_LIMIT)
           entered == [FreshTurn(s) EXCEPT
                          !.mode = "stream", !.sessionId = SessionOf(sock),
                          !.messageId = messageId, !.conversation_id = conversation_id,
                          !.userContent = UserText]
           w0 == [WorldOf(s) EXCEPT !.activeStreams[messageId] = s, !.t = entered]
       IN CommitTo(s,
             IF CreateThrows(keyed, conversations, conversation_id)
             THEN HandlerEnd(Forward([w0 EXCEPT !.t.failed = TRUE,
                                                !.t.error = UNIQUE_FAILED],
                      "chat.error",
                      [conversation_id |-> conversation_id, error |-> UNIQUE_FAILED]))
             ELSE StartRound([w0 EXCEPT
                      !.conversations = ConversationsFor(conversations, conversation_id),
                      !.messages = stored,
                      !.t.convId = convId, !.t.historyLength = Len(history),
                      !.t.ctx = FirstMessages(history)]))
    /\ UNCHANGED <<shells, closeEvents, frames, router, now, ticks, trustRules, rulesMade, clients, readyState,
                   reply>>
ChatSend(sock, messageId, conversation_id) == ChatSendIn(1, sock, messageId, conversation_id)

\* socket.on('message') with a chat.cancel envelope: handleChatCancel
ChatCancel(messageId) ==
    /\ IF activeStreams[messageId] = 1
       THEN t' = [t EXCEPT !.aborted = TRUE] /\ t2' = t2
       ELSE IF activeStreams[messageId] = 2
       THEN t2' = [t2 EXCEPT !.aborted = TRUE] /\ t' = t
       ELSE UNCHANGED <<t, t2>>
    /\ activeStreams' = [activeStreams EXCEPT ![messageId] = NoStream]
    /\ UNCHANGED <<shells, closeEvents, frames, router, now, ticks, actions, trustRules, rulesMade, clients, readyState, sent,
                   reply, conversations, messages, execLog>>

\* The backend stream yields a text increment.
BackendTokenIn(s, tok) ==
    /\ TurnOf(s).pc = "stream"
    /\ LET w1 == [WorldOf(s) EXCEPT
                    !.t.roundContent = IF TurnOf(s).final THEN @ ELSE Append(@, tok),
                    !.t.allContent = Append(@, tok),
                    !.t.llmCalls[Len(TurnOf(s).llmCalls)].text = Append(@, tok)]
       IN CommitTo(s, IF HandlerBreaks(w1) THEN HandlerEnd(w1)
                      ELSE Forward(w1, "chat.token",
                               [conversation_id |-> ConvOrEmpty(w1), token |-> tok]))
    /\ UNCHANGED <<shells, closeEvents, frames, router, now, ticks, trustRules, rulesMade, clients, readyState, reply>>
BackendToken(tok) == BackendTokenIn(1, tok)

\* The backend stream ends with its summary value, which carries `calls`.
BackendDoneIn(s, calls) ==
    /\ TurnOf(s).pc = "stream"
    /\ TurnOf(s).final => calls = <<>>
    /\ LET tcs == [i \in 1..Len(calls) |->
                      [id |-> ToolCallIdPool[TurnOf(s).callsMade + i],
                       name |-> calls[i].name, arguments |-> calls[i].arguments]]
       IN CommitTo(s, IF TurnOf(s).final THEN Finish(WorldOf(s))
                 ELSE IF calls = <<>> THEN EndOfRound(WorldOf(s))
                 ELSE RunCalls([WorldOf(s) EXCEPT
                          !.t.llmCalls[Len(TurnOf(s).llmCalls)].tool_calls = tcs,
                          !.t.hadToolCalls = TRUE,
                          !.t.ctx = Append(@, [role |-> "assistant", tool_call_id |-> "",
                                               content |-> TurnOf(s).roundContent]),
                          !.t.calls = tcs,
                          !.t.callsMade = @ + Len(calls)]))
    /\ UNCHANGED <<shells, closeEvents, frames, router, now, ticks, trustRules, rulesMade, clients, readyState, reply>>
BackendDone(calls) == BackendDoneIn(1, calls)

\* (faulty variant) the failure is reported and the turn is finished anyway
BackendFailPersists(err) ==
    /\ t.pc = "stream"
    /\ Commit(Finish(Forward([World EXCEPT !.t.failed = TRUE, !.t.error = err],
                  "chat.error",
                  [conversation_id |-> t.conversation_id, error |-> err])))
    /\ UNCHANGED <<shells, closeEvents, frames, router, now, ticks, trustRules, rulesMade, clients, readyState, reply>>

\* The backend stream fails: the error leaves streamMessage and is caught
\* by the handler, which sends chat.error.
BackendFail(err) ==
    /\ t.pc = "stream"
    /\ Commit(HandlerEnd(Forward([World EXCEPT !.t.failed = TRUE, !.t.error = err],
                  "chat.error",
                  [conversation_id |-> t.conversation_id, error |-> err])))
    /\ UNCHANGED <<shells, closeEvents, frames, router, now, ticks, trustRules, rulesMade, clients, readyState, reply>>

\* POST /chat answers when sendMessage has returned or thrown.
ChatReply(turn) ==
    IF turn.mode = "send" /\ turn.pc = "ended"
    THEN [route |-> "chat", code |-> IF turn.failed THEN 502 ELSE 200,
          decision |-> "", action |-> <<>>,
          error |-> IF turn.failed THEN turn.error ELSE ""]
    ELSE reply

\* POST /chat: the body is validated and sendMessage runs up to its first
\* routeChat.
PostChatIn(s, message, conversation_id) ==
    /\ Free(s)
    /\ IF message = <<>>
       THEN /\ reply' = [route |-> "chat", code |-> 400, decision |-> "", action |-> <<>>,
                         error |-> "Invalid request: message is required"]
            /\ UNCHANGED <<conversations, messages, t, t2>>
       ELSE \E keyed \in BOOLEAN :
            LET convId == ConvIdFor(conversations, conversation_id)
                stored == createMessage(messages, convId, "user", message)
                history == listMessages(stored, convId, HISTORY_LIMIT)
                entered == [FreshTurn(s) EXCEPT
                               !.mode = "send", !.conversation_id = conversation_id,
                               !.userContent = message]
                thrown == [entered EXCEPT !.failed = TRUE, !.error = UNIQUE_FAILED,
                                          !.pc = "ended"]
                called == CallBackend([t |-> [entered EXCEPT
                               !.pc = "chat", !.convId = convId,
                               !.historyLength = Len(history),
                               !.ctx = FirstMessages(history)]], TRUE).t
                next == IF CreateThrows(keyed, conversations, conversation_id)
                        THEN thrown ELSE called
            IN /\ IF CreateThrows(keyed, conversations, conversation_id)
                  THEN UNCHANGED <<conversations, messages>>
                  ELSE /\ conversations' =
                             ConversationsFor(conversations, conversation_id)
                       /\ messages' = stored
               /\ IF s = 1 THEN t' = next /\ t2' = t2 ELSE t2' = next /\ t' = t
               /\ reply' = ChatReply(next)
    /\ UNCHANGED <<shells, closeEvents, frames, router, now, ticks, actions, trustRules, rulesMade, clients, readyState, sent,
                   activeStreams, execLog>>
PostChat(message, conversation_id) == PostChatIn(1, message, conversation_id)

\* routeChat returns a response with text `content` and tool calls `calls`.
ChatRespondsIn(s, content, calls) ==
    /\ TurnOf(s).pc = "chat"
    /\ TurnOf(s).final => calls = <<>>
    /\ LET tcs == [i \in 1..Len(calls) |->
                      [id |-> ToolCallIdPool[TurnOf(s).callsMade + i],
                       name |-> calls[i].name, arguments |-> calls[i].arguments]]
           w1 == [WorldOf(s) EXCEPT
                    !.t.allContent = @ \o content,
                    !.t.llmCalls[Len(TurnOf(s).llmCalls)].text = content,
                    !.t.llmCalls[Len(TurnOf(s).llmCalls)].tool_calls = tcs]
       IN CommitTo(s, IF TurnOf(s).final THEN SendFinish(w1)
                 ELSE IF calls = <<>> THEN SendAfterLoop(w1)
                 ELSE SendRunCalls([w1 EXCEPT
                          !.t.hadToolCalls = TRUE,
                          !.t.ctx = Append(@, [role |-> "assistant", tool_call_id |-> "",
                                               content |-> content]),
                          !.t.calls = tcs,
                          !.t.callsMade = @ + Len(calls)]))
    /\ reply' = ChatReply(IF s = 1 THEN t' ELSE t2')
    /\ UNCHANGED <<shells, closeEvents, frames, router, now, ticks, trustRules, rulesMade, clients, readyState>>
ChatResponds(content, calls) == ChatRespondsIn(1, content, calls)

\* routeChat throws: the error leaves sendMessage and the route answers 502.
ChatFailsIn(s, err) ==
    /\ TurnOf(s).pc = "chat"
    /\ LET thrown == [TurnOf(s) EXCEPT !.failed = TRUE, !.error = err, !.pc = "ended"]
       IN /\ IF s = 1 THEN t' = thrown /\ t2' = t2 ELSE t2' = thrown /\ t' = t
          /\ reply' = ChatReply(thrown)
    /\ UNCHANGED <<shells, closeEvents, frames, router, now, ticks, actions, trustRules, rulesMade, clients, readyState, sent,
                   conversations, messages, activeStreams, execLog>>
ChatFails(err) == ChatFailsIn(1, err)

\* The poll timer of executeTool fires.
PollWake ==
    /\ t.pc = "sleep"
    /\ now >= t.wakeAt
    /\ LET outcome == PollOutcome(getAction(actions, t.actionId), t.deadline)
       IN Commit(IF outcome = "not_found" THEN Returned(World, Failure("Action not found"))
                 ELSE IF outcome = "approved" THEN Invoke(World)
                 ELSE IF outcome = "denied"
                 THEN Returned(World, Failure("Action denied by user"))
                 ELSE IF outcome = "sleep" THEN Sleep(World)
                 ELSE PollTimeout(World))
    /\ reply' = ChatReply(t')
    /\ UNCHANGED <<shells, closeEvents, frames, router, now, ticks, trustRules, rulesMade, clients, readyState>>

\* executeSkillAction resolves with `result`.
ToolReturnsIn(s, result) ==
    /\ TurnOf(s).pc = "exec"
    /\ result \in executeSkillAction(Head(TurnOf(s).calls).name[1],
                                     Head(TurnOf(s).calls).name[2])
    /\ CommitTo(s, Returned(WorldOf(s), result))
    /\ reply' = ChatReply(IF s = 1 THEN t' ELSE t2')
    /\ UNCHANGED <<shells, closeEvents, frames, router, now, ticks, trustRules, rulesMade, clients, readyState>>
ToolReturns(result) == ToolReturnsIn(1, result)

\* -------------------------------------------------------- specifications
NoReply == [route |-> "", code |-> 0, decision |-> "", action |-> <<>>, error |-> ""]

Init ==
    /\ now = StartNow
    /\ ticks = 0
    /\ actions = <<>>
    /\ trustRules = {}
    /\ rulesMade = 0
    /\ clients = [s \in Sessions |-> NoSocket]
    /\ readyState = [k \in Sockets |-> 0]
    /\ sent = [k \in Sockets |-> <<>>]
    /\ reply = NoReply
    /\ conversations = <<>>
    /\ messages = <<>>
    /\ activeStreams = [m \in MsgIds |-> NoStream]
    /\ execLog = <<>>
    /\ t = IdleTurn
    /\ router = IdleRouter
    /\ frames = NoFrames
    /\ closeEvents = {}
    /\ shells = NoShells
    /\ t2 = IdleTurn

\* The Action lifecycle: submit, approve, deny, the sweep and the clock.
LifecycleNext ==
    \/ \E req \in {r \in RestRequests : r.tier # "yellow"} : PostActions(req)
    \/ \E i \in 1..MaxActions : PostApprove(ActionIdPool[i])
    \/ \E i \in 1..MaxActions : PostDeny(ActionIdPool[i])
    \/ expireStaleActions
    \/ \E d \in Decisions : rulesMade < MaxRules /\ PostTrustRules("shell", ShellExec, d)
    \/ ticks < MaxTicks /\ Tick(POLL_INTERVAL_MS)

\* Submission against the trust rules and the session registry.
SubmitNext ==
    \/ \E req \in RestRequests : Len(actions) < MaxSubmits /\ PostActions(req)
    \/ \E sv \in RuleServices, a \in RuleActions, d \in Decisions :
          rulesMade < MaxRules /\ PostTrustRules(sv, a, d)
    \/ \E i \in 1..MaxRules : DeleteTrustRules(RuleIdPool[i])
    \/ \E k \in Sockets : WsConnect(k)
    \/ \E k \in Sockets : SocketDown(k)
    \/ \E k \in Sockets : WsClose(k)

vars == <<now, ticks, actions, trustRules, rulesMade, clients, readyState, sent,
          reply, conversations, messages, activeStreams, execLog, t, router, frames,
          closeEvents, shells, t2>>


\* The tool calls of a response stay within the bounds of the model.
WithinBounds(calls) ==
    /\ t.callsMade + Len(calls) <= MaxCalls
    /\ Len(actions) + Cardinality({i \in 1..Len(calls) : Gated(calls[i])}) <= MaxActions

\* The backend's script: the text increments it streams, in order, and the
\* tool-call lists one response may carry.
TokenScript == <<"a", "b", "a", "b">>
Green == [name |-> <<"browser", "open">>, arguments |-> "{}"]
Yellow == [name |-> <<"clipboard", "write">>, arguments |-> "{}"]
Red == [name |-> <<"shell", "exec">>, arguments |-> "{}"]
CallLists ==
    {<<>>, <<Green>>, <<Yellow>>, <<Red>>, <<Yellow, Red>>}

\* One chat turn with its client, the backend, the reviewing user and the
\* clock; the clock is advanced while the turn waits on it.
Next ==
    \/ WsConnect(1)
    \/ OneTurn(1) /\ ChatSend(1, "m1", <<>>)
    \/ \E m \in MsgIds : ChatCancel(m)
    \/ Len(t.allContent) < MaxTokens /\ BackendToken(TokenScript[Len(t.allContent) + 1])
    \/ \E calls \in CallLists : WithinBounds(calls) /\ BackendDone(calls)
    \/ \E err \in RouterErrors : BackendFail(err)
    \/ PollWake
    \/ \E result \in SkillResults : ToolReturns(result)
    \/ \E i \in 1..Len(actions) : PostApprove(ActionIdPool[i])
    \/ \E i \in 1..Len(actions) : PostDeny(ActionIdPool[i])
    \/ t.pc = "sleep" /\ ticks < MaxTicks /\ \E d \in TickSteps : Tick(d)

Spec == Init /\ [][Next]_vars

\* One chat turn of tool calls against the whole gate: trust rules written
\* before the turn, decisions and the sweep at any time.
WaitNext ==
    \/ WsConnect(1)
    \/ OneTurn(1) /\ ChatSend(1, "m1", <<>>)
    \/ \E m \in MsgIds : ChatCancel(m)
    \/ \E calls \in CallLists : WithinBounds(calls) /\ BackendDone(calls)
    \/ PollWake
    \/ \E result \in SkillResults : ToolReturns(result)
    \/ \E i \in 1..Len(actions) : PostApprove(ActionIdPool[i])
    \/ \E i \in 1..Len(actions) : PostDeny(ActionIdPool[i])
    \/ expireStaleActions
    \/ t.pc = "idle" /\ rulesMade < MaxRules
          /\ \E d \in Decisions : PostTrustRules("shell", ShellExec, d)
    \/ t.pc = "sleep" /\ ticks < MaxTicks /\ \E d \in TickSteps : Tick(d)

WaitSpec == Init /\ [][WaitNext]_vars

\* Turns of up to MAX_TOOL_ROUNDS rounds, streamed and not: each response
\* carries at most one text increment and at most one tool call, which
\* needs no approval.
RoundText == IF t.round % 2 = 0 THEN <<"a">> ELSE <<"b">>
RoundCalls == {<<>>, <<Green>>}
\* The host tool's results vary in the first rounds of a long turn.
VariedRounds == 1
RoundResults ==
    IF t.round < VariedRounds THEN SkillResults
    ELSE {r \in SkillResults : r.result # <<>>}
RoundsNext ==
    \/ WsConnect(1)
    \/ OneTurn(1) /\ ChatSend(1, "m1", <<>>)
    \/ \E message \in {<<>>, UserText} : OneTurn(1) /\ PostChat(message, <<>>)
    \/ ChatCancel("m1")
    \/ /\ t.pc = "stream"
       /\ t.llmCalls[Len(t.llmCalls)].text = <<>>
       /\ BackendToken(RoundText[1])
    \/ \E calls \in RoundCalls : BackendDone(calls)
    \/ \E err \in RouterErrors : BackendFail(err)
    \/ \E content \in {<<>>, RoundText}, calls \in RoundCalls : ChatResponds(content, calls)
    \/ \E err \in RouterErrors : ChatFails(err)
    \/ \E result \in RoundResults : ToolReturns(result)

RoundsSpec == Init /\ [][RoundsNext]_vars

\* A turn in a conversation that earlier turns have left with `n` stored
\* messages, user and assistant in alternation, oldest first.
HistoryLengths == {0, 1, 2, HISTORY_LIMIT - 1, HISTORY_LIMIT, HISTORY_LIMIT + 1}
StoredMessages(n) ==
    [i \in 1..n |-> [id |-> MessageIdPool[i], conversation_id |-> "c1",
                     role |-> IF i % 2 = 1 THEN "user" ELSE "assistant",
                     content |-> <<ToString(i)>>]]
HistoryInit ==
    /\ now = StartNow
    /\ ticks = 0
    /\ actions = <<>>
    /\ trustRules = {}
    /\ rulesMade = 0
    /\ clients = [s \in Sessions |-> NoSocket]
    /\ readyState = [k \in Sockets |-> 0]
    /\ sent = [k \in Sockets |-> <<>>]
    /\ reply = NoReply
    /\ conversations = createConversation(<<>>, "c1")
    /\ \E n \in HistoryLengths : messages = StoredMessages(n)
    /\ activeStreams = [m \in MsgIds |-> NoStream]
    /\ execLog = <<>>
    /\ t = IdleTurn
    /\ router = IdleRouter
    /\ frames = NoFrames
    /\ closeEvents = {}
    /\ shells = NoShells
    /\ t2 = IdleTurn
HistoryNext ==
    \/ WsConnect(1)
    \/ OneTurn(1) /\ ChatSend(1, "m1", <<"c1">>)
    \/ OneTurn(1) /\ PostChat(UserText, <<"c1">>)
    \/ ChatCancel("m1")
    \/ Len(t.allContent) < MaxTokens /\ BackendToken(TokenScript[Len(t.allContent) + 1])
    \/ BackendDone(<<>>)
    \/ \E content \in {<<>>, <<"a">>} : ChatResponds(content, <<>>)

HistorySpec == HistoryInit /\ [][HistoryNext]_vars

\* One call of the router on any chain of up to MaxChain slots.
RouterNext ==
    \/ \E capability \in Capabilities, chain \in Chains : routeChat(capability, chain)
    \/ \E capability \in Capabilities, chain \in Chains :
          routeChatStream(capability, chain)
    \/ IsAvailableSettles
    \/ ChatStreamYields
    \/ ChatSettles

RouterSpec == Init /\ [][RouterNext]_vars

\* One turn, streamed or not, whose responses may carry tool calls with
\* arguments that do not parse or names that resolve to nothing.
Unparsed == [name |-> <<"shell", "exec">>, arguments |-> "{"]
Ghost == [name |-> <<"ghost", "run">>, arguments |-> "{}"]
Undotted == [name |-> <<"shellexec">>, arguments |-> "{}"]
ToolLists ==
    {<<>>, <<Unparsed>>, <<Ghost>>, <<Undotted>>, <<Green>>, <<Red>>,
     <<Unparsed, Red>>, <<Red, Ghost>>, <<Undotted, Green>>}
ToolsNext ==
    \/ WsConnect(1)
    \/ OneTurn(1) /\ ChatSend(1, "m1", <<>>)
    \/ OneTurn(1) /\ PostChat(UserText, <<>>)
    \/ \E calls \in ToolLists : WithinBounds(calls) /\ BackendDone(calls)
    \/ \E calls \in ToolLists : WithinBounds(calls) /\ ChatResponds(<<>>, calls)
    \/ PollWake
    \/ \E result \in SkillResults : ToolReturns(result)
    \/ \E i \in 1..Len(actions) : PostApprove(ActionIdPool[i])
    \/ \E i \in 1..Len(actions) : PostDeny(ActionIdPool[i])
    \/ t.pc = "sleep" /\ ticks < MaxTicks /\ \E d \in TickSteps : Tick(d)

ToolsSpec == Init /\ [][ToolsNext]_vars

\* Two connections and the frames they send, around one turn whose tool
\* call waits for a decision.
SwitchSockets == {1, 2}
SwitchNext ==
    \/ \E k \in SwitchSockets : WsConnect(k)
    \/ \E k \in SwitchSockets, f \in InboundFrames : frames.count < MaxFrames /\ WsFrame(k, f)
    \/ OneTurn(1) /\ ChatSend(1, "m1", <<>>)
    \/ WithinBounds(<<Red>>) /\ BackendDone(<<Red>>)
    \/ t.callsMade > 0 /\ BackendDone(<<>>)
    \/ PollWake
    \/ \E result \in SkillResults : ToolReturns(result)
    \/ Len(actions) > 0 /\ PostApprove(ActionIdPool[1])
    \/ t.pc = "sleep" /\ ticks < MaxTicks /\ Tick(WAIT_BUDGET_MS)

SwitchSpec == Init /\ [][SwitchNext]_vars

\* A streamed turn whose text is sent while connections come and go.
DeliverNext ==
    \/ \E k \in Sockets : WsConnect(k)
    \/ \E k \in Sockets : SocketDown(k)
    \/ \E k \in Sockets : WsClose(k)
    \/ OneTurn(1) /\ ChatSend(1, "m1", <<>>)
    \/ Len(t.allContent) < MaxTokens /\ BackendToken(TokenScript[Len(t.allContent) + 1])
    \/ BackendDone(<<>>)

DeliverSpec == Init /\ [][DeliverNext]_vars

\* The trust-rule table under writes and deletes, and the gate's lookups.
RulesNext ==
    \/ \E sv \in RuleServices, a \in {ShellExec, ClipWrite}, d \in Decisions :
          rulesMade < MaxWrites /\ PostTrustRules(sv, a, d)
    \/ \E i \in 1..MaxWrites : DeleteTrustRules(RuleIdPool[i])
    \/ \E req \in RestRequests : Len(actions) < MaxSubmits /\ PostActions(req)

RulesSpec == Init /\ [][RulesNext]_vars

\* A streamed turn nobody decides on: every response may carry a tool call,
\* the clock runs to each poll of a waiting call, every stream ends and
\* every tool returns.
TimerSecond == t.pc = "sleep" /\ now < t.wakeAt /\ Tick(POLL_INTERVAL_MS)
StreamEnds ==
    \/ \E calls \in {<<>>, <<Green>>, <<Red>>} :
          /\ Len(actions) + Cardinality({i \in 1..Len(calls) : Gated(calls[i])}) <= MaxActions
          /\ BackendDone(calls)
    \/ \E err \in RouterErrors : BackendFail(err)
TurnEndsNext ==
    \/ WsConnect(1)
    \/ OneTurn(1) /\ ChatSend(1, "m1", <<>>)
    \/ StreamEnds
    \/ PollWake
    \/ \E result \in RoundResults : ToolReturns(result)
    \/ TimerSecond

TurnEndsSpec ==
    /\ Init /\ [][TurnEndsNext]_vars
    /\ WF_vars(StreamEnds)
    /\ WF_vars(PollWake)
    /\ WF_vars(\E result \in RoundResults : ToolReturns(result))
    /\ WF_vars(TimerSecond)

\* The shells of one session's tabs: commands, kills, output, exits and
\* the session's cleanup.
ShellOutputs ==
    Cardinality({<<k, i>> \in Sockets \X (1..(MaxOutput + MaxPtys)) :
                    i <= Len(sent[k]) /\ sent[k][i].type = "shell.output"})
ShellsNext ==
    \/ WsConnect(1)
    \/ \E m \in MsgIds, tb \in Tabs :
          Len(shells.ptys) < MaxPtys /\ handleShellExec("s1", m, tb)
    \/ \E tb \in Tabs : handleShellKill("s1", tb)
    \/ cleanupShells("s1")
    \/ \E p \in 1..Len(shells.ptys) : ShellOutputs < MaxOutput /\ PtyData(p)
    \/ \E p \in 1..Len(shells.ptys) : PtyExit(p)

ShellsSpec == Init /\ [][ShellsNext]_vars

LifecycleSpec == Init /\ [][LifecycleNext]_vars
SubmitSpec == Init /\ [][SubmitNext]_vars

\* ================================================================ claims
\* The sessions the registry holds with an open socket.
Connected(s) == clients[s] # NoSocket /\ readyState[clients[s]] = WS_OPEN
Resolved(id) == \E i \in 1..Len(actions) : actions[i].id = id /\ actions[i].status # "pending"
Exists(id) == \E i \in 1..Len(actions) : actions[i].id = id
LastRow(acts) == acts[Len(acts)]
NotificationOf(row) ==
    createWSMessage("notification.action", row.id,
        [action_id |-> row.id, type |-> row.type, tier |-> row.tier,
         title |-> row.title, description |-> row.description])

\* C2: under every interleaving of submit, approve, deny and the sweep, a row
\* of the actions table changes only by leaving pending for approved, denied
\* or expired; once it is not pending it never changes again, and no row is
\* ever removed.
C2_StatusOneWay ==
    [][ /\ Len(actions') >= Len(actions)
        /\ \A i \in 1..Len(actions) :
              \/ actions'[i] = actions[i]
              \/ /\ actions[i].status = "pending"
                 /\ actions'[i].status \in {"approved", "denied", "expired"}
                 /\ actions'[i].id = actions[i].id ]_vars

C2_Witness ==
    /\ \E i \in 1..Len(actions) : actions[i].status = "expired"
    /\ \E i \in 1..Len(actions) : actions[i].status = "denied" /\ actions[i].tier = "red"
    /\ reply.code = 404

\* C3: approve or deny of an Action that is already resolved, or of an
\* identity that names no Action, replies 404 "Action not found or already
\* resolved" and leaves every row (status and resolved_at included) as it was.
C3_ResolveTwiceIsNoOp ==
    [][ \A n \in 1..MaxActions + 1 :
          LET id == ActionIdPool[n]
          IN ((PostApprove(id) \/ PostDeny(id)) /\ (Resolved(id) \/ ~Exists(id)))
             => /\ reply'.code = 404
                /\ reply'.error = "Action not found or already resolved"
                /\ actions' = actions ]_vars

C3_Witness ==
    /\ reply.route = "deny" /\ reply.code = 404
    /\ \E i \in 1..Len(actions) :
          /\ actions[i].status = "approved"
          /\ actions[i].tier = "red"
          /\ actions[i].resolved_at # <<SqlDatetime(now)>>

\* C6: a yellow or red submission for which the rule lookup finds an ask
\* rule or nothing stores the Action as pending, writes exactly one
\* notification.action envelope (identity, type, tier, title, description of
\* that Action) to the socket of every connected session and to no other
\* socket, and replies pending with the identity of the stored Action.
C6_PendingIsBroadcast ==
    [][ \A req \in RestRequests :
          ( /\ PostActions(req)
            /\ req.tier \in {"yellow", "red"}
            /\ \A r \in findTrustRule(SplitDot(req.type)[1], req.type) : r.decision = "ask" )
          => /\ Len(actions') = Len(actions) + 1
             /\ LastRow(actions').status = "pending"
             /\ LastRow(actions').type = req.type
             /\ LastRow(actions').tier = req.tier
             /\ LastRow(actions').title = req.title
             /\ LastRow(actions').description = req.description
             /\ \A i \in 1..Len(actions) : actions[i].id # LastRow(actions').id
             /\ \A k \in Sockets :
                   sent'[k] = IF \E s \in Sessions : Connected(s) /\ clients[s] = k
                              THEN Append(sent[k], NotificationOf(LastRow(actions')))
                              ELSE sent[k]
             /\ reply'.decision = "pending"
             /\ reply'.action = <<LastRow(actions').id, "pending">> ]_vars

C6_Witness ==
    /\ reply.decision = "pending"
    /\ \E r \in trustRules : r.decision = "ask"
    /\ Len(actions) > 0
    /\ \A s \in Sessions : clients[s] # NoSocket
    /\ \E k \in Sockets : sent[k] = <<NotificationOf(LastRow(actions))>>
    /\ \E k \in Sockets : readyState[k] = WS_CLOSED /\ sent[k] = <<>>

\* C7: a green submission replies auto_approved in the same step, stores the
\* Action as approved and writes nothing to any socket, whatever trust rule
\* exists for its key.
C7_GreenNeverNotifies ==
    [][ \A req \in RestRequests :
          (PostActions(req) /\ req.tier = "green")
          => /\ reply'.decision = "auto_approved"
             /\ Len(actions') = Len(actions) + 1
             /\ LastRow(actions').status = "approved"
             /\ reply'.action = <<LastRow(actions').id, "approved">>
             /\ sent' = sent ]_vars

C7_Witness ==
    /\ reply.decision = "auto_approved"
    /\ Len(actions) > 0
    /\ LastRow(actions).tier = "green" /\ LastRow(actions).status = "approved"
    /\ \E r \in trustRules : r.decision = "auto_deny" /\ r.action = LastRow(actions).type
    /\ \E s \in Sessions : Connected(s)

\* C8: a yellow or red submission that a trust rule decides replies
\* auto_approved (rule auto_approve) or auto_denied (rule auto_deny) in the
\* same step, stores the Action as approved resp. denied, and writes nothing
\* to any socket.
C8_RuleDecidesSilently ==
    [][ \A req \in RestRequests : \A d \in {"auto_approve", "auto_deny"} :
          ( /\ PostActions(req)
            /\ req.tier \in {"yellow", "red"}
            /\ \E r \in findTrustRule(SplitDot(req.type)[1], req.type) : r.decision = d )
          => /\ reply'.decision = (IF d = "auto_approve" THEN "auto_approved" ELSE "auto_denied")
             /\ Len(actions') = Len(actions) + 1
             /\ LastRow(actions').status = (IF d = "auto_approve" THEN "approved" ELSE "denied")
             /\ LastRow(actions').resolved_at # <<>>
             /\ sent' = sent ]_vars

C8_Witness ==
    /\ reply.decision = "auto_denied"
    /\ Len(actions) > 0
    /\ LastRow(actions).tier = "red" /\ LastRow(actions).status = "denied"
    /\ \A s \in Sessions : Connected(s)
    /\ \A k \in Sockets : sent[k] = <<>>


\* ------------------------------------------------------ claims on the turn
StatusOf(acts, id) == IF RowOf(acts, id) = 0 THEN "none" ELSE acts[RowOf(acts, id)].status
Executed(log, toolCallId) == \E i \in 1..Len(log) : log[i].tool_call_id = toolCallId
GatedTiers == {"yellow", "red"}
\* The instant a datetime('now') text denotes, in milliseconds.
SqlMs(dt) == dt[1] * MsPerDay + dt[3] * 1000
\* A step of the turn other than the cancel flag being raised.
TurnMoves == [t' EXCEPT !.aborted = t.aborted] # t
TimedOut(r) == r.error = "Action approval timed out"

\* C1: a yellow or red tool is handed to executeSkillAction only in a step
\* in which the gate has just answered auto_approved or the poll finds the
\* call's Action approved; in every state each executed yellow/red call has
\* an approved Action, never a pending, denied or expired one.
C1_GatedToolRunsOnlyApproved ==
    [][ /\ \A i \in 1..Len(execLog') :
              execLog'[i].tier \in GatedTiers
                  => StatusOf(actions', execLog'[i].actionId) = "approved"
        /\ (Len(execLog') > Len(execLog) /\ LastRow(execLog').tier \in GatedTiers)
              => LET id == LastRow(execLog').actionId
                 IN \/ ~Exists(id)
                    \/ /\ t.pc = "sleep"
                       /\ t.actionId = id
                       /\ StatusOf(actions, id) = "approved" ]_vars

\* A call approved by the user during its wait and a call approved by a
\* trust rule have both run.
C1_Witness ==
    /\ \E i \in 1..Len(t.results) :
          t.results[i].success /\ t.results[i].deadline # 0
    /\ \E i \in 1..Len(execLog) :
          /\ execLog[i].tier = "red"
          /\ \E j \in 1..Len(t.results) :
                /\ t.results[j].tool_call_id = execLog[i].tool_call_id
                /\ t.results[j].deadline = 0

\* The failures with which executeTool refuses a gated call.
RefusalErrors ==
    {"Action denied by trust rules", "Action denied by user", "Action approval timed out"}

\* The result the tool itself resolved with, as opposed to a refusal of
\* the gate.
FromTheTool(r) ==
    /\ [success |-> r.success, result |-> r.result,
        error |-> IF r.error = "" THEN <<>> ELSE <<r.error>>] \in SkillResults
    /\ r.error \notin RefusalErrors

DecidedInTime(acts, r) ==
    LET row == acts[RowOf(acts, r.actionId)]
    IN /\ row.status \in {"approved", "denied"}
       /\ SqlMs(row.resolved_at[1]) < r.deadline

\* C5 (as stated): a tool call that waited on a pending Action for which no
\* approve or deny arrived within the wait budget returns the failure
\* 'Action approval timed out' and has not executed the tool, and its Action
\* is still pending when it returns; no step of the turn changes an existing
\* Action, and a pending Action becomes expired only in a step of the sweep.
C5_NoDecisionInBudgetTimesOut ==
    [][ /\ \A k \in 1..Len(t'.results) :
              (k > Len(t.results) /\ t'.results[k].deadline # 0
                  /\ ~DecidedInTime(actions', t'.results[k]))
                 => /\ TimedOut(t'.results[k]) /\ ~t'.results[k].success
                    /\ ~Executed(execLog', t'.results[k].tool_call_id)
                    /\ StatusOf(actions', t'.results[k].actionId) = "pending"
        /\ TurnMoves => \A i \in 1..Len(actions) : actions'[i] = actions[i]
        /\ \A i \in 1..Len(actions) :
              (actions[i].status # "expired" /\ actions'[i].status = "expired")
                 => /\ actions[i].status = "pending"
                    /\ turnVars' = turnVars
                    /\ actions' = expireOldActionsRows(actions, ACTION_TIMEOUT_MS) ]_vars

\* C5 (as the code has it): when the poll that ends the wait (its timer
\* fires with the budget used up) finds the Action neither approved nor
\* denied, the call returns the failure 'Action approval timed out', the
\* tool is not executed and no existing Action row is changed; a timed-out
\* call's Action is pending at the return, or expired when the sweep ran
\* during the wait; no step of the turn changes an existing Action, and a
\* pending Action becomes expired only in a step of the sweep.
C5_TimedOutWaitLeavesActionAlone ==
    [][ /\ (t.pc = "sleep" /\ TurnMoves /\ now >= t.deadline
              /\ StatusOf(actions, t.actionId) \in {"pending", "expired"})
           => /\ Len(t'.results) > Len(t.results)
              /\ LET r == t'.results[Len(t.results) + 1]
                 IN /\ TimedOut(r) /\ ~r.success
                    /\ r.actionId = t.actionId
                    /\ ~Executed(execLog', r.tool_call_id)
        /\ \A k \in 1..Len(t'.results) :
              (k > Len(t.results) /\ TimedOut(t'.results[k]))
                 => /\ StatusOf(actions', t'.results[k].actionId) \in {"pending", "expired"}
                    /\ now >= t'.results[k].deadline
        /\ TurnMoves => \A i \in 1..Len(actions) : actions'[i] = actions[i]
        /\ \A i \in 1..Len(actions) :
              (actions[i].status # "expired" /\ actions'[i].status = "expired")
                 => /\ actions[i].status = "pending"
                    /\ turnVars' = turnVars
                    /\ actions' = expireOldActionsRows(actions, ACTION_TIMEOUT_MS) ]_vars

\* Two calls have returned the timeout failure without running their tools:
\* the Action of one is still pending, the Action of the other was expired
\* by the sweep while the call waited.
C5_Witness ==
    \E i, j \in 1..Len(t.results) :
        /\ TimedOut(t.results[i]) /\ TimedOut(t.results[j])
        /\ StatusOf(actions, t.results[i].actionId) = "pending"
        /\ StatusOf(actions, t.results[j].actionId) = "expired"
        /\ ~Executed(execLog, t.results[i].tool_call_id)
        /\ ~Executed(execLog, t.results[j].tool_call_id)

\* C9: a turn that was cancelled before its natural completion has no
\* final assistant message in the message store.
C9_CancelledTurnPersistsNoMessage ==
    t.aborted
        => ~\E i \in 1..Len(messages) :
              messages[i].role = "assistant" /\ messages[i].conversation_id = t.convId

\* C10: the events sent to a session are only ever appended to, and once
\* handleChatCancel has aborted the turn no chat.token event carrying the
\* turn's correlation identity is appended.
C10_NoTokenAfterCancel ==
    [][ \A k \in Sockets :
          /\ Len(sent'[k]) >= Len(sent[k])
          /\ \A i \in 1..Len(sent[k]) : sent'[k][i] = sent[k][i]
          /\ t.aborted
                => \A i \in 1..Len(sent'[k]) :
                      i > Len(sent[k])
                         => ~(sent'[k][i].type = "chat.token"
                              /\ sent'[k][i].id = t.messageId) ]_vars

\* The turn was cancelled after a token had been sent, and the backend has
\* since produced a token that was not forwarded.
C10_Witness ==
    /\ t.aborted
    /\ \E k \in Sockets :
          /\ \E i \in 1..Len(sent[k]) :
                sent[k][i].type = "chat.token" /\ sent[k][i].id = t.messageId
          /\ Len(t.allContent)
                > Cardinality({i \in 1..Len(sent[k]) : sent[k][i].type = "chat.token"})


\* ------------------------------------------------- claims on turn errors
\* The envelopes of a type sent to any socket under a correlation identity.
EventsIn(log, type, id) ==
    {<<k, i>> \in Sockets \X (1..(4 * MAX_TOOL_ROUNDS)) :
        i <= Len(log[k]) /\ log[k][i].type = type /\ log[k][i].id = id}
EventsOf(type, id) == EventsIn(sent, type, id)
MessagesIn(msgs, role, conv) ==
    {i \in 1..Len(msgs) : msgs[i].role = role /\ msgs[i].conversation_id = conv}
AssistantMessages(conv) == MessagesIn(messages, "assistant", conv)
UserMessages(conv) == MessagesIn(messages, "user", conv)

\* C11: for a turn that was cancelled, no chat.error and no chat.done is
\* sent under its correlation identity, also when its backend stream fails
\* after the cancel.
C11_CancelledTurnGetsNoErrorOrDone ==
    t.aborted
        => /\ EventsOf("chat.error", t.messageId) = {}
           /\ EventsOf("chat.done", t.messageId) = {}


\* C12: when the backend stream of a turn fails, exactly one chat.error
\* with the turn's correlation identity is sent and no chat.done; the user
\* message stored before the loop stays stored, no assistant message is
\* stored for the turn, and no further backend call is made.
C12_BackendFailureIsOneError ==
    [][ /\ t'.failed
           => /\ Cardinality(EventsIn(sent', "chat.error", t'.messageId)) = 1
              /\ EventsIn(sent', "chat.done", t'.messageId) = {}
              /\ Cardinality(MessagesIn(messages', "user", t'.convId)) = 1
              /\ MessagesIn(messages', "assistant", t'.convId) = {}
              /\ t'.pc = "ended"
        /\ (~t.failed /\ t'.failed)
           => /\ messages' = messages
              /\ t'.llmCalls = t.llmCalls
        /\ t.failed => (t'.llmCalls = t.llmCalls /\ messages' = messages) ]_vars

\* A turn that was not cancelled failed in a later round, after a token
\* had been sent.
C12_Witness ==
    /\ t.failed /\ ~t.aborted
    /\ Len(t.llmCalls) > 1
    /\ EventsOf("chat.token", t.messageId) # {}
    /\ EventsOf("chat.error", t.messageId) # {}


\* ----------------------------------------------- claims on the tool loop
\* The tool-role messages of a message list, in order.
ToolMessages(ctx) == SelectSeq(ctx, LAMBDA m : m.role = "tool")
\* The tool_result events sent for a tool call.
ToolResultsIn(log, toolCallId) ==
    {<<k, i>> \in Sockets \X (1..(4 * MAX_TOOL_ROUNDS)) :
        /\ i <= Len(log[k])
        /\ log[k][i].type = "chat.tool_result"
        /\ log[k][i].payload.tool_call_id = toolCallId}

\* C13: a tool call that ends denied (by rule or by the user) or timed out
\* does not end the turn: it returns success = false; in a turn that is not
\* cancelled its tool_result is sent with success = false, its result is
\* appended as a tool-role message and the turn goes on (the next tool call
\* or the next backend call); a turn that ends neither cancelled nor on an
\* error thrown out of it (by the backend, or by the log line on the result
\* of another call) ends with done and one assistant message.
C13_RefusedToolCallDoesNotEndTurn ==
    [][ /\ \A k \in 1..Len(t'.results) :
              (k > Len(t.results) /\ t'.results[k].error \in RefusalErrors)
                 => LET r == t'.results[k]
                    IN /\ ~r.success
                       /\ ~t'.failed
                       /\ ~t.aborted
                             => /\ \E e \in ToolResultsIn(sent', r.tool_call_id) :
                                      /\ e[2] > Len(sent[e[1]])
                                      /\ ~sent'[e[1]][e[2]].payload.success
                                /\ \E i \in 1..Len(t'.ctx) :
                                      /\ t'.ctx[i].role = "tool"
                                      /\ t'.ctx[i].tool_call_id = r.tool_call_id
                                      /\ t'.ctx[i].content = <<[success |-> FALSE,
                                                                result |-> <<>>,
                                                                error |-> <<r.error>>]>>
                                /\ t'.pc \in {"stream", "sleep", "exec"}
                                /\ t'.calls = <<>>
                                      => Len(t'.llmCalls) = Len(t.llmCalls) + 1
        /\ (t'.pc = "ended" /\ ~t'.aborted /\ ~t'.failed)
              => /\ Cardinality(EventsIn(sent', "chat.done", t'.messageId)) = 1
                 /\ Cardinality(MessagesIn(messages', "assistant", t'.convId)) = 1 ]_vars

\* A turn with a timed-out call and a call denied by a trust rule has ended
\* with done.
C13_Witness ==
    /\ t.pc = "ended" /\ ~t.aborted
    /\ EventsOf("chat.done", t.messageId) # {}
    /\ \E i, j \in 1..Len(t.results) :
          /\ t.results[i].error = "Action approval timed out"
          /\ t.results[j].error = "Action denied by trust rules"


\* The tool_start and tool_result events written to a socket, in order.
ToolEvents(log) ==
    SelectSeq(log, LAMBDA e : e.type \in {"chat.tool_start", "chat.tool_result"})
\* The position of a tool call among the tool calls of the turn.
CallIndex(toolCallId) ==
    CHOOSE n \in 1..Len(ToolCallIdPool) : ToolCallIdPool[n] = toolCallId
\* The number of tool calls the first k backend responses carried.
RECURSIVE CallsBefore(_, _)
CallsBefore(calls, k) ==
    IF k = 0 THEN 0 ELSE CallsBefore(calls, k - 1) + Len(calls[k].tool_calls)

\* C16: the tool events of a turn come as tool_start(t1), tool_result(t1),
\* tool_start(t2), ... in the order the backend returned the calls; a tool
\* is executed after its tool_start and before its tool_result; every
\* backend call after the first carries, in order, one tool-role message
\* for each tool call of all earlier responses.
C16_ToolCallsRunOneByOne ==
    [][ /\ \A k \in Sockets :
              LET E == ToolEvents(sent'[k])
              IN \A j \in 1..Len(E) :
                    IF j % 2 = 1
                    THEN /\ E[j].type = "chat.tool_start"
                         /\ E[j].payload.tool_call_id = ToolCallIdPool[(j + 1) \div 2]
                    ELSE /\ E[j].type = "chat.tool_result"
                         /\ E[j].payload.tool_call_id = ToolCallIdPool[j \div 2]
        /\ Len(execLog') > Len(execLog)
              => LET n == CallIndex(LastRow(execLog').tool_call_id)
                 IN /\ Len(execLog') = Len(execLog) + 1
                    /\ Len(ToolEvents(sent'[clients[t.sessionId]])) = 2 * n - 1
        /\ \A k \in 1..Len(t'.llmCalls) :
              LET tm == ToolMessages(t'.llmCalls[k].messages)
              IN /\ Len(tm) = CallsBefore(t'.llmCalls, k - 1)
                 /\ \A i \in 1..Len(tm) : tm[i].tool_call_id = ToolCallIdPool[i] ]_vars

\* Two tool calls of one response have both been run and reported, and the
\* next backend call has been made.
C16_Witness ==
    /\ Len(t.llmCalls) > 1
    /\ Len(t.llmCalls[1].tool_calls) = 2
    /\ Len(execLog) = 2
    /\ \E k \in Sockets : Len(ToolEvents(sent[k])) = 4


\* The result executeTool returned for a tool call.
ResultOf(toolCallId) ==
    CHOOSE r \in {t.results[i] : i \in 1..Len(t.results)} : r.tool_call_id = toolCallId

\* C17: on every socket, the tool_result of a tool call that waited on a
\* pending Action comes after the notification.action of that Action; when
\* the poll of a turn that is not cancelled finds the Action denied, the
\* call's result, and every tool_result event sent for it, has success =
\* false and the error 'Action denied by user'; a turn with such a call
\* that ends neither cancelled nor on an error thrown out of it (by the
\* backend, or by the log line on the result of another call) ends with done.
C17_NotificationBeforeToolResult ==
    /\ [](\A k \in Sockets : \A i \in 1..Len(sent[k]) :
            (/\ sent[k][i].type = "chat.tool_result"
             /\ ResultOf(sent[k][i].payload.tool_call_id).deadline # 0)
               => \E j \in 1..(i - 1) :
                     /\ sent[k][j].type = "notification.action"
                     /\ sent[k][j].payload.action_id =
                           ResultOf(sent[k][i].payload.tool_call_id).actionId)
    /\ []((t.pc = "ended" /\ ~t.aborted /\ ~t.failed
            /\ \E i \in 1..Len(t.results) : t.results[i].deadline # 0)
            => EventsOf("chat.done", t.messageId) # {})
    /\ [][(/\ t.pc = "sleep" /\ t'.pc # "sleep" /\ ~t.aborted
           /\ StatusOf(actions, t.actionId) = "denied")
          => LET r == t'.results[Len(t'.results)]
             IN /\ Len(t'.results) = Len(t.results) + 1
                /\ r.actionId = t.actionId
                /\ ~r.success /\ r.error = "Action denied by user"
                /\ \A p \in ToolResultsIn(sent', r.tool_call_id) :
                      /\ ~sent'[p[1]][p[2]].payload.success
                      /\ sent'[p[1]][p[2]].payload.error = "Action denied by user"]_vars

\* A red call without a trust rule was denied by the user, reported, and
\* the turn has ended with done.
C17_Witness ==
    /\ EventsOf("chat.done", t.messageId) # {}
    /\ \E k \in Sockets : \E i \in 1..Len(sent[k]) :
          /\ sent[k][i].type = "chat.tool_result"
          /\ sent[k][i].payload.tool_name = <<"shell", "exec">>
          /\ sent[k][i].payload.error = "Action denied by user"


\* The text increments the backend produced in this turn, in generation order.
RECURSIVE Generated(_)
Generated(calls) ==
    IF calls = <<>> THEN <<>>
    ELSE Generated(SubSeq(calls, 1, Len(calls) - 1)) \o calls[Len(calls)].text

\* The tokens of the chat.token events of a turn in a socket's log, in the
\* order they were written.
RECURSIVE TokensSent(_, _)
TokensSent(log, id) ==
    IF log = <<>> THEN <<>>
    ELSE TokensSent(SubSeq(log, 1, Len(log) - 1), id)
         \o (IF log[Len(log)].type = "chat.token" /\ log[Len(log)].id = id
             THEN <<log[Len(log)].payload.token>> ELSE <<>>)

\* The socket of the turn's session is the one it was opened on and is open.
StaysConnected ==
    /\ t.sessionId # ""
    /\ clients[t.sessionId] # 0
    /\ readyState[clients[t.sessionId]] = WS_OPEN

\* C18: while a turn is not cancelled and its session is connected, the
\* chat.token events written to the session's socket carry exactly the text
\* increments the backend has produced so far, one event per increment and
\* in generation order.
C18_TokensInGenerationOrder ==
    (t.pc # "idle" /\ ~t.aborted /\ StaysConnected)
        => TokensSent(sent[clients[t.sessionId]], t.messageId) = Generated(t.llmCalls)

\* Increments of two backend calls of one turn have been delivered.
C18_Witness ==
    /\ ~t.aborted /\ StaysConnected
    /\ Len(t.llmCalls) >= 2
    /\ t.llmCalls[1].text # <<>>
    /\ t.llmCalls[2].text # <<>>
    /\ t.llmCalls[1].text # t.llmCalls[2].text
    /\ Len(TokensSent(sent[clients[t.sessionId]], t.messageId)) = 2


\* The turn is over, neither cancelled nor failed.
Completed == t.pc = "ended" /\ ~t.aborted /\ ~t.failed
\* Every one of the MAX_TOOL_ROUNDS rounds returned tool calls.
AllRoundsCalled ==
    /\ Len(t.llmCalls) >= MAX_TOOL_ROUNDS
    /\ \A i \in 1..MAX_TOOL_ROUNDS : t.llmCalls[i].tool_calls # <<>>

\* C14: a turn makes at most MAX_TOOL_ROUNDS + 1 backend calls; when every
\* one of the MAX_TOOL_ROUNDS rounds returned tool calls and the turn has
\* completed, the last call is the tool-free one, exactly one assistant
\* message is stored, and its content is the text of all the calls in order.
C14_RoundsAreBounded ==
    /\ Len(t.llmCalls) <= MAX_TOOL_ROUNDS + 1
    /\ (AllRoundsCalled /\ Completed)
         => /\ Len(t.llmCalls) = MAX_TOOL_ROUNDS + 1
            /\ \A i \in 1..MAX_TOOL_ROUNDS : t.llmCalls[i].tools
            /\ ~t.llmCalls[MAX_TOOL_ROUNDS + 1].tools
            /\ Cardinality(AssistantMessages(t.convId)) = 1
            /\ \A i \in AssistantMessages(t.convId) :
                  messages[i].content = Generated(t.llmCalls)

\* A streamed turn of ten tool rounds with text in the first, the last and
\* the forced final round has completed.
C14_Witness ==
    /\ AllRoundsCalled /\ Completed /\ t.mode = "stream"
    /\ t.llmCalls[1].text # <<>>
    /\ t.llmCalls[MAX_TOOL_ROUNDS].text # <<>>
    /\ t.llmCalls[MAX_TOOL_ROUNDS + 1].text # <<>>
    /\ Cardinality(AssistantMessages(t.convId)) = 1

\* C15: a second backend call is made only if the first response carried
\* tool calls; a completed turn whose first response carried none made one
\* backend call in one round and stored exactly one assistant message.
C15_NoToolCallsEndsAfterOneRound ==
    /\ Len(t.llmCalls) >= 2 => t.llmCalls[1].tool_calls # <<>>
    /\ (Completed /\ t.llmCalls[1].tool_calls = <<>>)
         => /\ Len(t.llmCalls) = 1
            /\ t.round = 0
            /\ Cardinality(AssistantMessages(t.convId)) = 1

\* sendMessage has returned after one response with text and no tool calls.
C15_Witness ==
    /\ Completed /\ t.mode = "send"
    /\ Len(t.llmCalls) = 1
    /\ t.llmCalls[1].text # <<>>
    /\ t.llmCalls[1].tool_calls = <<>>
    /\ reply.route = "chat" /\ reply.code = 200
    /\ Cardinality(AssistantMessages(t.convId)) = 1


\* The stored messages of a conversation, oldest first.
Stored(conv) == SelectSeq(messages, LAMBDA m : m.conversation_id = conv)

\* C19: while the first backend call of a turn is in flight, its message
\* list is the system instruction followed by the last HISTORY_LIMIT (or
\* all, if fewer) stored messages of the conversation, the last of which is
\* the user message of this turn.
C19_Round1SeesTheLastMessages ==
    (t.pc \in {"stream", "chat"} /\ Len(t.llmCalls) = 1)
        => LET list == t.llmCalls[1].messages
               mine == Stored(t.convId)
               k == IF Len(mine) < HISTORY_LIMIT THEN Len(mine) ELSE HISTORY_LIMIT
           IN /\ Len(list) = 1 + k
              /\ list[1].role = "system" /\ list[1].content = SYSTEM_PROMPT
              /\ \A j \in 1..k :
                    /\ list[1 + j].role = mine[Len(mine) - k + j].role
                    /\ list[1 + j].content = mine[Len(mine) - k + j].content
              /\ list[Len(list)].role = "user"
              /\ list[Len(list)].content = UserText


\* Slot k is the one healthy slot of the chain.
OnlyHealthy(chain, k) ==
    /\ chain[k] = "healthy"
    /\ \A j \in 1..Len(chain) : j # k => chain[j] # "healthy"
\* The slots a kind of call was made on, in the order of the calls.
SlotsOf(log, op) ==
    LET calls == SelectSeq(log, LAMBDA e : e.op = op)
    IN [i \in 1..Len(calls) |-> calls[i].slot]

\* C20: on a chain whose only healthy slot is the k-th, the router never
\* probes or calls a slot after k and never throws; when it has returned,
\* the result is slot k's, isAvailable() was called on slots 1..k once each
\* in chain order, and a slot's chat call directly follows its own probe.
C20_RouterSelectsFirstHealthySlot ==
    \A k \in 1..Len(router.chain) :
        OnlyHealthy(router.chain, k)
            => /\ \A i \in 1..Len(router.log) : router.log[i].slot <= k
               /\ router.pc # "threw"
               /\ \A i \in 1..Len(router.log) :
                     router.log[i].op = "chat"
                        => /\ i > 1
                           /\ router.log[i - 1] = [op |-> "isAvailable",
                                                   slot |-> router.log[i].slot]
               /\ router.pc = "returned"
                     => /\ router.result = k
                        /\ SlotsOf(router.log, "isAvailable") = [i \in 1..k |-> i]
                        /\ router.log[Len(router.log)] = [op |-> "chat", slot |-> k]

\* routeChatStream has returned the second slot's response on a chain of
\* three whose first slot's probe raised.
C20_Witness ==
    /\ router.pc = "returned" /\ router.mode = "stream"
    /\ Len(router.chain) = MaxChain
    /\ router.chain[1] = "probe_raises"
    /\ OnlyHealthy(router.chain, 2)
    /\ router.result = 2


\* C21: within one routeChatStream call no slot is probed or called after a
\* slot that has yielded a text increment, and all increments the caller
\* received come from one slot.
C21_StreamFallbackIsWholeRequest ==
    router.mode = "stream"
        => /\ \A i, j \in 1..Len(router.yielded) : router.yielded[i] = router.yielded[j]
           /\ \A i \in 1..Len(router.yielded) : \A e \in 1..Len(router.log) :
                 router.log[e].slot <= router.yielded[i]


\* C22: a call of routeChat or routeChatStream on an empty chain has thrown
\* the no-provider error, with no isAvailable() and no chat call made and
\* nothing yielded; that error is thrown for an empty chain only.
C22_EmptyChainFailsBeforeAnyCall ==
    /\ (router.pc # "idle" /\ router.chain = <<>>)
          => /\ router.pc = "threw"
             /\ router.error = NO_PROVIDER(router.capability)
             /\ router.log = <<>>
             /\ router.yielded = <<>>
    /\ (\E capability \in Capabilities : router.error = NO_PROVIDER(capability))
          => router.chain = <<>>

\* routeChatStream was called on an empty chain.
C22_Witness ==
    /\ router.mode = "stream"
    /\ router.chain = <<>>
    /\ router.pc = "threw"
    /\ router.error = NO_PROVIDER(router.capability)


\* The tool calls the backend has returned in this turn.
ReturnedCalls ==
    UNION {{t.llmCalls[i].tool_calls[j] : j \in 1..Len(t.llmCalls[i].tool_calls)} :
              i \in 1..Len(t.llmCalls)}
\* The arguments do not parse, or the name resolves to no skill/action or tier.
Malformed(tc) ==
    \/ ~JsonParses(tc.arguments)
    \/ parseToolName(tc.name) = <<>>
    \/ getActionTier(tc.name) = ""
NotificationsIn(log) ==
    {<<k, i>> \in Sockets \X (1..(4 * MAX_TOOL_ROUNDS)) :
        i <= Len(log[k]) /\ log[k][i].type = "notification.action"}

\* C23: a tool call whose arguments do not parse or whose name is unknown
\* is never executed and its result is a failure that names no Action; the
\* Actions created and the notifications broadcast in the turn are at most
\* one per well-formed gated tool call.
C23_MalformedCallNeverReachesGate ==
    /\ \A tc \in ReturnedCalls :
          Malformed(tc)
             => /\ ~Executed(execLog, tc.id)
                /\ \A i \in 1..Len(t.results) :
                      t.results[i].tool_call_id = tc.id
                         => /\ ~t.results[i].success
                            /\ t.results[i].actionId = ""
                            /\ t.results[i].deadline = 0
    /\ Len(actions) <= Cardinality({tc \in ReturnedCalls : ~Malformed(tc) /\ Gated(tc)})
    /\ Cardinality(NotificationsIn(sent))
          <= Cardinality({tc \in ReturnedCalls : ~Malformed(tc) /\ Gated(tc)})

\* A streamed call with unparseable arguments has been answered with a
\* failed tool_result; no Action exists and nothing was executed.
C23_Witness ==
    /\ \E i \in 1..Len(t.results) :
          /\ t.results[i].error = "Invalid tool arguments JSON"
          /\ ToolResultsIn(sent, t.results[i].tool_call_id) # {}
    /\ actions = <<>>
    /\ execLog = <<>>
    /\ NotificationsIn(sent) = {}


\* The message handler has just taken a frame.
FrameTaken == frames'.count = frames.count + 1

\* C24: when a connection sends action.approve (action.deny) for an Action
\* that is pending, the Action is approved (denied) by that step.
C24_DecisionFrameResolvesAction ==
    [][(/\ FrameTaken
        /\ frames'.frame.type \in {"action.approve", "action.deny"}
        /\ StatusOf(actions, frames'.frame.payload[1]) = "pending")
       => StatusOf(actions', frames'.frame.payload[1])
             = IF frames'.frame.type = "action.approve" THEN "approved" ELSE "denied"]_vars

\* The frame is not an envelope: no JSON, no object, or no type and id.
NoEnvelope(f) == f.json # "object" \/ (f.type = "" /\ f.id = "")

\* C25: a frame that is no envelope is answered on its connection with one
\* error envelope under the sentinel identity, and no connection is closed
\* or unregistered by it; a ping taken on an open connection, whatever came
\* before, is answered with a pong under its identity.
C25_MalformedFrameGetsSentinelError ==
    [][/\ (FrameTaken /\ NoEnvelope(frames'.frame))
          => LET k == frames'.sock
             IN /\ Len(sent'[k]) = Len(sent[k]) + 1
                /\ sent'[k][Len(sent'[k])].type = "chat.error"
                /\ sent'[k][Len(sent'[k])].id = "unknown"
                /\ clients' = clients
                /\ readyState' = readyState
       /\ (FrameTaken /\ frames'.frame.type = "ping")
          => LET k == frames'.sock
             IN sent'[k] = Append(sent[k], createWSMessage("pong", frames'.frame.id, <<>>))]_vars


\* The backend has just produced a text increment.
TokenStep == t.pc = "stream" /\ Len(t'.allContent) = Len(t.allContent) + 1

\* C26: the send of a token envelope to the turn's session appends it once
\* to the log of the session's registered socket if that socket is open and
\* changes no other log; with the session unregistered or its socket not
\* open no log changes and the turn goes on unfailed; and no step of a
\* connection (open, down, close) writes anything to any log.
C26_SendReachesOneOpenSession ==
    [][/\ TokenStep
          => LET k == clients[t.sessionId]
                 envelope == createWSMessage("chat.token", t.messageId,
                                 [conversation_id |-> ConvOrEmpty([t |-> t]),
                                  token |-> t'.allContent[Len(t'.allContent)]])
             IN /\ (k # NoSocket /\ readyState[k] = WS_OPEN)
                      => sent' = [sent EXCEPT ![k] = Append(@, envelope)]
                /\ (k = NoSocket \/ readyState[k] # WS_OPEN)
                      => sent' = sent
                /\ t'.pc = "stream" /\ ~t'.failed
       /\ (clients' # clients \/ readyState' # readyState) => sent' = sent]_vars

\* Of two increments one was sent to the open socket and one dropped after
\* the socket went down; the other session is connected and got nothing.
C26_Witness ==
    /\ Len(t.allContent) = 2
    /\ Len(sent[1]) = 1
    /\ readyState[1] = WS_CLOSED
    /\ readyState[2] = WS_OPEN
    /\ sent[2] = <<>>


\* The rules of a (service, action) pair.
RulesFor(rules, service, action) ==
    {r \in rules : r.service = service /\ r.action = action}

\* C27: there is at most one rule per (service, action); a write on a pair
\* that has a rule adds no row and changes nothing but that rule's
\* decision, a write on a pair without one adds exactly one row.
C27_OneRulePerServiceAction ==
    /\ [](\A r1, r2 \in trustRules :
             (r1.service = r2.service /\ r1.action = r2.action) => r1 = r2)
    /\ [][rulesMade' = rulesMade + 1
          => \E sv \in RuleServices, a \in {ShellExec, ClipWrite} :
                /\ Cardinality(RulesFor(trustRules', sv, a)) = 1
                /\ trustRules' \ RulesFor(trustRules', sv, a)
                      = trustRules \ RulesFor(trustRules, sv, a)
                /\ \A old \in RulesFor(trustRules, sv, a) :
                      \A new \in RulesFor(trustRules', sv, a) :
                         /\ new.id = old.id
                         /\ Cardinality(trustRules') = Cardinality(trustRules)]_vars

\* Three writes on one pair have left one rule: it has the first write's
\* identity and the decision auto_deny.
C27_Witness ==
    /\ rulesMade = MaxWrites
    /\ Cardinality(trustRules) = 1
    /\ \E r \in trustRules : r.id = RuleIdPool[1] /\ r.decision = "auto_deny"

\* C28: the lookup for (service, action) gives the rule of exactly that
\* pair if there is one, else the rule of ("*", action) if there is one,
\* else none; and a submitted yellow or red Action is decided by the rule
\* the lookup gives for its type: denied at once under auto_deny, approved
\* at once under auto_approve, pending otherwise.
C28_ExactRuleBeforeWildcard ==
    /\ [](\A sv \in {"shell", "clipboard"}, a \in {ShellExec, ClipWrite} :
             LET exact == RulesFor(trustRules, sv, a)
                 wild == RulesFor(trustRules, "*", a)
             IN /\ exact # {} => findTrustRule(sv, a) = exact
                /\ (exact = {} /\ wild # {}) => findTrustRule(sv, a) = wild
                /\ (exact = {} /\ wild = {}) => findTrustRule(sv, a) = {}
                /\ Cardinality(findTrustRule(sv, a)) <= 1)
    /\ [][(Len(actions') = Len(actions) + 1 /\ reply'.route = "actions"
             /\ actions'[Len(actions')].tier # "green")
          => LET type == actions'[Len(actions')].type
                 exact == RulesFor(trustRules, type[1], type)
                 wild == RulesFor(trustRules, "*", type)
                 rule == IF exact # {} THEN exact ELSE wild
             IN reply'.decision =
                   IF \E r \in rule : r.decision = "auto_approve" THEN "auto_approved"
                   ELSE IF \E r \in rule : r.decision = "auto_deny" THEN "auto_denied"
                   ELSE "pending"]_vars

\* A red Action was denied by the exact rule although the wildcard rule for
\* the same action approves.
C28_Witness ==
    /\ \E r \in trustRules :
          r.service = "shell" /\ r.action = ShellExec /\ r.decision = "auto_deny"
    /\ \E r \in trustRules :
          r.service = "*" /\ r.action = ShellExec /\ r.decision = "auto_approve"
    /\ Len(actions) = 1
    /\ actions[1].tier = "red"
    /\ reply.decision = "auto_denied"


\* The Action of row i has just been set to expired.
Expires(i) == actions'[i].status = "expired" /\ actions[i].status # "expired"

\* C29: a step that sets an Action to expired finds it pending and created
\* more than ACTION_TIMEOUT_MS ago, sets to expired every Action that is
\* pending and that old, and changes no other Action.
C29_SweepExpiresOnlyOldPending ==
    [][\A i \in 1..Len(actions) :
          Expires(i)
             => /\ actions[i].status = "pending"
                /\ now - SqlMs(actions[i].created_at) > ACTION_TIMEOUT_MS
                /\ \A j \in 1..Len(actions) :
                      IF /\ actions[j].status = "pending"
                         /\ now - SqlMs(actions[j].created_at) > ACTION_TIMEOUT_MS
                      THEN actions'[j].status = "expired"
                      ELSE actions'[j] = actions[j]]_vars


\* C30: in a streamed turn a backend call without tools is the 11th call,
\* made after MAX_TOOL_ROUNDS rounds that all returned tool calls; a
\* completed turn whose loop ended in a round without tool calls made as
\* many backend calls as rounds, all with tools offered and only the last
\* without tool calls; and the stored content is the text of all the calls,
\* that of the additional one last.
C30_FinalCallOnlyAfterTenToolRounds ==
    t.mode = "stream"
        => /\ \A i \in 1..Len(t.llmCalls) :
                 ~t.llmCalls[i].tools => (i = MAX_TOOL_ROUNDS + 1 /\ AllRoundsCalled)
           /\ (AllRoundsCalled /\ t.pc \in {"stream", "ended"} /\ ~t.aborted)
                 => Len(t.llmCalls) = MAX_TOOL_ROUNDS + 1
           /\ (Completed /\ ~AllRoundsCalled)
                 => /\ Len(t.llmCalls) = t.round + 1
                    /\ Len(t.llmCalls) <= MAX_TOOL_ROUNDS
                    /\ t.llmCalls[Len(t.llmCalls)].tool_calls = <<>>
                    /\ \A i \in 1..(Len(t.llmCalls) - 1) : t.llmCalls[i].tool_calls # <<>>
           /\ Completed
                 => \A i \in AssistantMessages(t.convId) :
                       messages[i].content = Generated(t.llmCalls)

\* A streamed turn has completed in its third round, the first without
\* tool calls, after three backend calls.
C30_Witness ==
    /\ t.mode = "stream" /\ Completed
    /\ t.round = 2
    /\ Len(t.llmCalls) = 3
    /\ t.llmCalls[3].tools
    /\ t.llmCalls[3].text # <<>>
    /\ AssistantMessages(t.convId) # {}


\* ------------------------------------------- claims on decisions and cancel
\* C31: an approve call reports success, the Action going from pending to
\* approved, only while the tool call that submitted the Action is still
\* waiting for it; never after that call has returned or its turn has ended.
C31_ApprovalOnlyWhileCallWaits ==
    [][\A i \in 1..Len(actions) :
          (actions[i].status = "pending" /\ actions'[i].status = "approved")
             => /\ t.pc = "sleep"
                /\ t.actionId = actions[i].id]_vars


\* C32: once handleChatCancel has aborted the turn, executeSkillAction is
\* not invoked for any tool call of the turn.
C32_NoToolRunsAfterCancel ==
    [][t.aborted => execLog' = execLog]_vars


\* ------------------------------------------------------ claims on `done`
\* The envelopes written to a socket under a correlation identity, in order.
EnvelopesOf(log, id) == SelectSeq(log, LAMBDA e : e.id = id)

\* C35: no chat.done is written for a streamed turn before it is over; when
\* the turn has completed with its session connected, chat.done was written
\* once and is the last envelope of the turn, its content is the tokens of
\* all the chat.token envelopes of the turn in order, and exactly one
\* assistant message is stored, with the identity and the content that the
\* chat.done envelope carries.
C35_DoneIsLastAndCarriesAllText ==
    (t.mode = "stream" /\ StaysConnected)
        => LET log  == sent[clients[t.sessionId]]
               mine == EnvelopesOf(log, t.messageId)
               done == mine[Len(mine)]
           IN /\ t.pc # "ended"
                    => \A i \in 1..Len(mine) : mine[i].type # "chat.done"
              /\ Completed
                    => /\ mine # <<>>
                       /\ done.type = "chat.done"
                       /\ \A i \in 1..(Len(mine) - 1) : mine[i].type # "chat.done"
                       /\ done.payload.content = TokensSent(log, t.messageId)
                       /\ Cardinality(AssistantMessages(t.convId)) = 1
                       /\ \A i \in AssistantMessages(t.convId) :
                             /\ messages[i].id = done.payload.message_id
                             /\ messages[i].content = done.payload.content

\* A streamed turn with a token in its first round, a tool call and a token
\* in its second round has completed.
C35_Witness ==
    /\ t.mode = "stream" /\ Completed /\ StaysConnected
    /\ Len(t.llmCalls) = 2
    /\ t.llmCalls[1].text # <<>> /\ t.llmCalls[1].tool_calls # <<>>
    /\ t.llmCalls[2].text # <<>>
    /\ \E i \in 1..Len(sent[clients[t.sessionId]]) :
          sent[clients[t.sessionId]][i].type = "chat.done"


\* ------------------------------------------- claims on an exhausted chain
\* No slot of the chain is healthy.
NoneHealthy(chain) == chain # <<>> /\ \A j \in 1..Len(chain) : chain[j] # "healthy"
\* The slots whose provider answers the probe with true.
Reachable(chain) ==
    LET idx == SelectSeq([i \in 1..Len(chain) |-> i],
                         LAMBDA i : chain[i] \in {"chat_raises", "breaks"})
    IN idx

\* C37: on a non-empty chain without a healthy slot routeChat and
\* routeChatStream never return; at every moment isAvailable() has been
\* called on the slots 1..k once each in chain order, and chat / chatStream
\* at most once on a slot, after that slot's probe; when the router throws,
\* every slot was probed once, the call was made once on each slot whose
\* probe answered true, and the error is the all-providers-failed one that
\* names the capability the call was made for.
C37_ExhaustedChainProbesEachSlotOnce ==
    (router.pc # "idle" /\ NoneHealthy(router.chain))
        => /\ router.pc # "returned"
           /\ SlotsOf(router.log, "isAvailable") = [i \in 1..router.slot |-> i]
           /\ \A i, j \in 1..Len(router.log) :
                 (router.log[i].op = "chat" /\ router.log[j].op = "chat"
                     /\ router.log[i].slot = router.log[j].slot) => i = j
           /\ \A i \in 1..Len(router.log) :
                 router.log[i].op = "chat"
                    => /\ i > 1
                       /\ router.log[i - 1] = [op |-> "isAvailable",
                                               slot |-> router.log[i].slot]
           /\ router.pc = "threw"
                 => /\ router.capability \in Capabilities
                    /\ router.error = "All providers failed for capability: "
                                          \o router.capability
                    /\ router.slot = Len(router.chain)
                    /\ SlotsOf(router.log, "chat") = Reachable(router.chain)

\* routeChatStream for the vision capability has thrown on a chain of
\* three: an unavailable slot, one whose stream fails and one whose probe
\* raises.
C37_Witness ==
    /\ router.mode = "stream" /\ router.pc = "threw"
    /\ router.capability = "vision"
    /\ router.chain = <<"unavailable", "chat_raises", "probe_raises">>
    /\ router.error = "All providers failed for capability: vision"
    /\ Len(router.log) = 4


\* --------------------------------------- claims on trust-rule identities
\* C39: the identity a write of POST /trust-rules answers with is the
\* identity of a stored rule, so that a delete by it removes the rule
\* written, also when the write replaced the decision of an existing rule.
C39_ReturnedIdentityIsTheStoredRule ==
    [][(rulesMade' = rulesMade + 1 /\ reply'.route = "trust-rules")
          => /\ \E r \in trustRules' : r.id = reply'.action[1]
             /\ \A r \in trustRules' \ trustRules : r.id = reply'.action[1]]_vars


\* ------------------------------------------------- claims on termination
\* C36: a wait's next poll is never set later than one poll interval after
\* the call's deadline, and every turn that has started ends, with no
\* approve or deny arriving, provided every backend stream ends, every
\* tool returns and the timers fire.
C36_EveryTurnTerminates ==
    /\ [](t.pc = "sleep" => t.wakeAt < t.deadline + POLL_INTERVAL_MS)
    /\ [](Len(t.llmCalls) <= MAX_TOOL_ROUNDS + 1)
    /\ (t.pc # "idle") ~> (t.pc = "ended")

\* A turn has completed after two of its tool calls each waited out the
\* whole budget on an Action nobody decided.
C36_Witness ==
    /\ Completed
    /\ Len(t.results) >= 2
    /\ \A i \in 1..2 : TimedOut(t.results[i]) /\ now >= t.results[i].deadline
    /\ \A i \in 1..Len(actions) : actions[i].status = "pending"


\* ------------------------------------------- claims on the session registry
\* C34: no step takes an open socket out of the session registry: a
\* session's entry that holds an open socket afterwards holds that socket or
\* one connected in the step, so that the session's latest open connection
\* is the one send and broadcast write to.
C34_OpenSocketStaysRegistered ==
    [][\A s \in Sessions :
          LET k == clients[s]
          IN (k # NoSocket /\ readyState[k] = WS_OPEN /\ readyState'[k] = WS_OPEN)
                => \/ clients'[s] = k
                   \/ /\ clients'[s] # NoSocket
                      /\ readyState[clients'[s]] = 0
                      /\ readyState'[clients'[s]] = WS_OPEN]_vars


\* ------------------------------------------------------- claims on shells
\* C40: every live PTY is the one registered in activeShells under its
\* (session, tab) key, so a key has at most one live PTY and the session's
\* cleanup reaches every live shell.
C40_LivePtyIsRegistered ==
    \A p \in 1..Len(shells.ptys) :
        shells.ptys[p].state = "live" => shells.active[shells.ptys[p].key] = p


\* ------------------------------------------------ two turns on one socket
\* handleChatSend is started for every chat.send frame and is not awaited by
\* the socket's message listener: a second turn can start while the first is
\* suspended on its backend stream.
Slots == {1, 2}
TwinCalls == {<<>>, <<Green>>}
TwinNext ==
    \/ WsConnect(1)
    \/ \E m \in MsgIds : OneTurn(1) /\ ChatSendIn(1, 1, m, <<>>)
    \/ \E m \in MsgIds : OneTurn(2) /\ ChatSendIn(2, 1, m, <<>>)
    \/ \E m \in MsgIds : ChatCancel(m)
    \/ \E s \in Slots : /\ Len(TurnOf(s).allContent) < MaxTokens
                        /\ BackendTokenIn(s, TokenScript[Len(TurnOf(s).allContent) + 1])
    \/ \E s \in Slots, calls \in TwinCalls :
          /\ TurnOf(s).callsMade + Len(calls) <= 1
          /\ BackendDoneIn(s, calls)
    \/ \E s \in Slots, result \in SkillResults : ToolReturnsIn(s, result)

TwinSpec == Init /\ [][TwinNext]_vars

\* A streamed turn between its chat.send and the end of its handler.
InFlight(turn) == turn.mode = "stream" /\ turn.pc \notin {"idle", "ended"}

\* C33: at every moment each in-flight turn that has not been cancelled has
\* its own cancellation token registered in activeStreams under its
\* correlation identity, and every entry of activeStreams belongs to a turn
\* in flight (a finished turn leaves none behind), also when another turn
\* with the same correlation identity starts or finishes meanwhile.
C33_InFlightTurnOwnsItsEntry ==
    \A s \in Slots :
        /\ (InFlight(TurnOf(s)) /\ ~TurnOf(s).aborted)
              => activeStreams[TurnOf(s).messageId] = s
        /\ \A m \in MsgIds : activeStreams[m] = s => InFlight(TurnOf(s))


\* ------------------------------------------ sendMessage beside streamMessage
\* Turn 1 is a POST /chat turn in conversation c1, turn 2 a chat.send turn in
\* conversation c2; the backend answers each call of either with a text and
\* a list of tool calls.
PairTexts == {<<>>, <<"a">>}
PairNext ==
    \/ WsConnect(1)
    \/ OneTurn(1) /\ PostChat(UserText, <<"c1">>)
    \/ \E content \in PairTexts, calls \in RoundCalls :
          /\ t.callsMade + Len(calls) <= MaxCalls
          /\ ChatResponds(content, calls)
    \/ OneTurn(2) /\ ChatSendIn(2, 1, "m1", <<"c2">>)
    \/ /\ t2.pc = "stream"
       /\ t2.llmCalls[Len(t2.llmCalls)].text = <<>>
       /\ BackendTokenIn(2, "a")
    \/ \E calls \in RoundCalls :
          /\ t2.callsMade + Len(calls) <= MaxCalls
          /\ BackendDoneIn(2, calls)
    \/ \E s \in Slots, result \in SkillResults : ToolReturnsIn(s, result)

PairSpec == Init /\ [][PairNext]_vars

MinOf(a, b) == IF a <= b THEN a ELSE b

\* The backend gave both turns the same responses, call by call, for as
\* many calls as both made, and the tools returned the same results.
SameResponses(a, b) ==
    /\ \A i \in 1..MinOf(Len(a.llmCalls), Len(b.llmCalls)) :
          /\ a.llmCalls[i].text = b.llmCalls[i].text
          /\ a.llmCalls[i].tool_calls = b.llmCalls[i].tool_calls
    /\ \A i \in 1..MinOf(Len(a.results), Len(b.results)) :
          /\ a.results[i].success = b.results[i].success
          /\ a.results[i].result = b.results[i].result
          /\ a.results[i].error = b.results[i].error

\* The content of the assistant message a completed turn has persisted.
StoredContent(turn) ==
    LET rows == {i \in 1..Len(messages) : messages[i].id = turn.assistantMsgId}
    IN {messages[i].content : i \in rows}

Persisted(turn) == turn.pc = "ended" /\ turn.assistantMsgId # ""

\* C38: sendMessage and streamMessage are equivalent turn by turn: given the
\* same sequence of backend responses and the same tool outcomes, both make
\* the same number of backend calls with the same tools-offered flag on each
\* call, and both persist an assistant message with the same content.
C38_SendAndStreamAgree ==
    (Persisted(t) /\ Persisted(t2) /\ SameResponses(t, t2))
        => /\ Len(t.llmCalls) = Len(t2.llmCalls)
           /\ \A i \in 1..Len(t.llmCalls) : t.llmCalls[i].tools = t2.llmCalls[i].tools
           /\ StoredContent(t) = StoredContent(t2)

====
